---- MODULE Spec2Model ----
(***************************************************************************)
(* Warehouse Sparepart Locator (src/server.js): the JSON document          *)
(* data/db.json and the API handlers that read or rewrite it               *)
(* (GET /api/search, GET /api/map, POST /api/admin/rack; GET /api/health). *)
(*                                                                         *)
(* JavaScript strings are sequences of one-character strings, so that      *)
(* trim / toUpperCase / toLowerCase / includes are computed, not assumed.  *)
(* JavaScript numbers are IEEE 754 doubles, each written as the shortest   *)
(* decimal that reads back as it: Number(...) rounds as the code does and  *)
(* JSON.stringify prints what the code prints.                             *)
(***************************************************************************)
EXTENDS Integers, Sequences, FiniteSets, TLC

\* Number of POST /api/admin/rack requests in one behaviour.
MaxReqs == 2

Slots == 1..MaxReqs

----------------------------------------------------------------------------
(* Natural numbers of any size are sequences of decimal digits 0..9, the   *)
(* most significant first and without leading zeros; <<>> is 0.            *)

Abs(m) == IF m < 0 THEN 0 - m ELSE m

Max(a, b) == IF a >= b THEN a ELSE b
Min(a, b) == IF a <= b THEN a ELSE b

Zeros(n) == [i \in 1..n |-> 0]

\* position of the first / last digit that is not 0, or 0 if there is none
FirstNonZero(d) ==
  IF \E i \in DOMAIN d : d[i] # 0
  THEN CHOOSE i \in DOMAIN d : d[i] # 0 /\ \A j \in 1..(i - 1) : d[j] = 0
  ELSE 0

LastNonZero(d) ==
  IF \E i \in DOMAIN d : d[i] # 0
  THEN CHOOSE i \in DOMAIN d : d[i] # 0 /\ \A j \in (i + 1)..Len(d) : d[j] = 0
  ELSE 0

StripLeft(d) == IF FirstNonZero(d) = 0 THEN <<>>
                ELSE SubSeq(d, FirstNonZero(d), Len(d))

StripRight(d) == SubSeq(d, 1, LastNonZero(d))

PadLeft(d, n) == Zeros(n - Len(d)) \o d

\* the digits of a natural number that is an integer of the module
RECURSIVE IntDigits(_)
IntDigits(n) == IF n = 0 THEN <<>> ELSE IntDigits(n \div 10) \o <<n % 10>>

\* the digits of positions lo..hi of the coefficient sequence c given the
\* carry that comes in from the right, and the carry that goes out (the
\* right half is computed before the left half is begun)
RECURSIVE CarryRange(_, _, _, _)
CarryRange(c, lo, hi, cin) ==
  IF lo = hi
  THEN [d |-> <<(c[lo] + cin) % 10>>, c |-> (c[lo] + cin) \div 10]
  ELSE LET mid == (lo + hi) \div 2
           r   == CarryRange(c, mid + 1, hi, cin)
           l   == CarryRange(c, lo, mid, r.c)
       IN  IF r.c < 0 THEN r ELSE [d |-> l.d \o r.d, c |-> l.c]

\* the number whose digit of weight 10^(Len(c) - i) is the natural c[i]
Normalize(c) ==
  IF c = <<>> THEN <<>>
  ELSE LET r == CarryRange(c, 1, Len(c), 0)
       IN  StripLeft(IntDigits(r.c) \o r.d)

AddNat(a, b) ==
  LET n == Max(Len(a), Len(b))
  IN  Normalize([i \in 1..n |-> PadLeft(a, n)[i] + PadLeft(b, n)[i]])

RECURSIVE SumProd(_, _, _, _, _)
SumProd(a, b, p, lo, hi) ==
  IF lo > hi THEN 0
  ELSE IF lo = hi THEN a[lo] * b[p + 1 - lo]
  ELSE SumProd(a, b, p, lo, (lo + hi) \div 2)
       + SumProd(a, b, p, (lo + hi) \div 2 + 1, hi)

MulNat(a, b) ==
  IF a = <<>> \/ b = <<>> THEN <<>>
  ELSE Normalize([p \in 1..(Len(a) + Len(b) - 1) |->
                    SumProd(a, b, p, Max(1, p + 1 - Len(b)), Min(Len(a), p))])

\* h * h, times x when odd
SquareTimes(h, x, odd) == IF odd THEN MulNat(MulNat(h, h), x) ELSE MulNat(h, h)

RECURSIVE PowNat(_, _)
PowNat(x, n) ==
  IF n = 0 THEN <<1>> ELSE SquareTimes(PowNat(x, n \div 2), x, n % 2 = 1)

\* a - 1, for a > 0
DecNat(a) ==
  StripLeft([j \in 1..Len(a) |-> IF j < LastNonZero(a) THEN a[j]
                                 ELSE IF j = LastNonZero(a) THEN a[j] - 1
                                 ELSE 9])

\* position of the first digit in which a and b (of one length) differ
FirstDiff(a, b) ==
  IF a = b THEN 0
  ELSE CHOOSE i \in DOMAIN a : a[i] # b[i] /\ \A j \in 1..(i - 1) : a[j] = b[j]

LessNat(a, b) ==
  \/ Len(a) < Len(b)
  \/ Len(a) = Len(b) /\ a # b /\ a[FirstDiff(a, b)] < b[FirstDiff(a, b)]

LessEqNat(a, b) == a = b \/ LessNat(a, b)

IsOdd(a) == a # <<>> /\ a[Len(a)] % 2 = 1

(* IEEE 754 doubles. A finite Number is k * 2^b with k < 2^53 and          *)
(* -1074 <= b <= 971; the decimal N * 10^x is rounded to the nearest one,  *)
(* ties to the even k.                                                     *)

Two52 == <<4,5,0,3,5,9,9,6,2,7,3,7,0,4,9,6>>
Two53 == <<9,0,0,7,1,9,9,2,5,4,7,4,0,9,9,2>>

\* the integer part and the fraction digits of N * 10^x
IntPart(N, x) ==
  IF x >= 0 THEN N \o Zeros(x)
  ELSE IF Len(N) + x <= 0 THEN <<>>
  ELSE SubSeq(N, 1, Len(N) + x)

FracPart(N, x) ==
  IF x >= 0 THEN <<>>
  ELSE Zeros(0 - x - Len(N)) \o SubSeq(N, Max(1, Len(N) + x + 1), Len(N))

\* F + fr / 10^Len(fr) rounded to an integer, ties to even
RoundUp(F, fr) ==
  /\ fr # <<>>
  /\ \/ fr[1] > 5
     \/ fr[1] = 5 /\ ((\E i \in 2..Len(fr) : fr[i] # 0) \/ IsOdd(F))

\* N * 10^x rounded to an integer, ties to even
RoundHalfEven(N, x) ==
  IF RoundUp(IntPart(N, x), FracPart(N, x))
  THEN AddNat(IntPart(N, x), <<1>>) ELSE IntPart(N, x)

\* M * 10^E / 2^b as a decimal N * 10^x
Scaled(M, E, b) ==
  [N |-> MulNat(M, PowNat(IF b <= 0 THEN <<2>> ELSE <<5>>, Abs(b))),
   x |-> IF b <= 0 THEN E ELSE E - b]

\* the exponent b of the double nearest to M * 10^E, from a first guess;
\* F is the integer part of M * 10^E / 2^b
RECURSIVE BinExp(_, _, _)
BinExpStep(M, E, b, F) ==
  IF ~LessNat(F, Two53) THEN BinExp(M, E, b + 1)
  ELSE IF LessNat(F, Two52) /\ b > -1074 THEN BinExp(M, E, b - 1)
  ELSE b

ScaledInt(sc) == IntPart(sc.N, sc.x)

BinExp(M, E, b) == BinExpStep(M, E, b, ScaledInt(Scaled(M, E, b)))

\* floor(log2(M * 10^E)), within 2
Log2Guess(M, E) ==
  ((E + Len(M) - 1) * 3321928) \div 1000000
  + (IF M[1] < 2 THEN 0 ELSE IF M[1] < 4 THEN 1 ELSE IF M[1] < 8 THEN 2 ELSE 3)

\* Number::toString / JSON.stringify: the shortest decimal that reads back
\* as the double k * 2^b, the one nearest to it when there are several.
\* A, W and B are the lower end of its rounding interval, the double and
\* the upper end, as integers of T digits in units of 10^c (c <= 0); the
\* ends belong to the interval when k is even (incl).
Interval(a, w, B, incl, c) ==
  [A |-> PadLeft(a, Len(B)), W |-> PadLeft(w, Len(B)), B |-> B, T |-> Len(B),
   incl |-> incl, c |-> IF c >= 0 THEN 0 ELSE c]

IntervalAt(w0, unit, step, incl, c) ==
  Interval(MulNat(DecNat(w0), unit), MulNat(w0, unit),
           MulNat(AddNat(w0, step), unit), incl, c)

\* below 2^52 * 2^b (b > -1074) the doubles are half as far apart
IntervalEdge(k, edge, c) ==
  IntervalAt(MulNat(k, IF edge THEN <<4>> ELSE <<2>>),
             PowNat(IF c >= 0 THEN <<2>> ELSE <<5>>, Abs(c)),
             IF edge THEN <<2>> ELSE <<1>>, ~IsOdd(k), c)

IntervalOf(k, b) ==
  IntervalEdge(k, k = Two52 /\ b > -1074,
               IF k = Two52 /\ b > -1074 THEN b - 2 ELSE b - 1)

\* the least and the greatest multiple of 10^j in the interval, over 10^j
LowCount(A, T, incl, j) ==
  IF incl /\ ~\E i \in (T - j + 1)..T : A[i] # 0
  THEN StripLeft(SubSeq(A, 1, T - j))
  ELSE AddNat(StripLeft(SubSeq(A, 1, T - j)), <<1>>)

HighCount(B, T, incl, j) ==
  IF incl \/ \E i \in (T - j + 1)..T : B[i] # 0
  THEN StripLeft(SubSeq(B, 1, T - j))
  ELSE DecNat(StripLeft(SubSeq(B, 1, T - j)))

\* the largest j <= j0 such that the interval holds a multiple of 10^j
RECURSIVE DropDigits(_, _, _, _, _)
DropDigits(A, B, T, incl, j) ==
  IF j = 0 \/ LessEqNat(LowCount(A, T, incl, j), HighCount(B, T, incl, j))
  THEN j ELSE DropDigits(A, B, T, incl, j - 1)

\* the digits c1 or c2 = c1 + 1 of the interval lo..hi: the one in it, the
\* nearer to the double (c2 when up) if both are
Nearer(c1, c2, lo, hi, up) ==
  IF ~LessEqNat(lo, c1) THEN c2
  ELSE IF ~LessEqNat(c2, hi) THEN c1
  ELSE IF up THEN c2 ELSE c1

\* the double is nearer to c1 + 1 than to c1, in units of 10^j (ties to even)
NearerUp(W, T, j, c1) ==
  /\ j > 0
  /\ \/ W[T - j + 1] > 5
     \/ W[T - j + 1] = 5 /\ ((\E i \in (T - j + 2)..T : W[i] # 0) \/ IsOdd(c1))

\* the Number of the digits pick in units of 10^e
Written(neg, pick, e) ==
  [k |-> "fin", neg |-> neg, d |-> StripRight(pick),
   e |-> e + (Len(pick) - LastNonZero(pick))]

ShortestPick(neg, iv, j, c1) ==
  Written(neg, Nearer(c1, AddNat(c1, <<1>>), LowCount(iv.A, iv.T, iv.incl, j),
                      HighCount(iv.B, iv.T, iv.incl, j),
                      NearerUp(iv.W, iv.T, j, c1)), iv.c + j)

ShortestCut(neg, iv, j) ==
  ShortestPick(neg, iv, j, StripLeft(SubSeq(iv.W, 1, iv.T - j)))

ShortestIn(neg, iv) ==
  ShortestCut(neg, iv, DropDigits(iv.A, iv.B, iv.T, iv.incl,
                                  iv.T - FirstDiff(iv.A, iv.B) + 1))

Shortest(neg, k, b) == ShortestIn(neg, IntervalOf(k, b))

(* JavaScript numbers: k = "fin" is the double of value d * 10^e, negated  *)
(* when neg, where d * 10^e is the shortest decimal that reads back as     *)
(* that double (what JSON.stringify prints), d has no leading and no       *)
(* trailing zero and 0 is d = <<>>, e = 0; "inf" has its sign in neg.      *)

Zero     == [k |-> "fin",  neg |-> FALSE, d |-> <<>>, e |-> 0]
NaN      == [k |-> "nan",  neg |-> FALSE, d |-> <<>>, e |-> 0]
Inf(neg) == [k |-> "inf",  neg |-> neg,   d |-> <<>>, e |-> 0]
Null     == [k |-> "null", neg |-> FALSE, d |-> <<>>, e |-> 0]

\* the double k * 2^b, k < 2^53, as a Number
Pack(neg, k, b) ==
  IF k = <<>> THEN Zero
  ELSE IF b > 971 THEN Inf(neg)
  ELSE Shortest(neg, k, b)

\* k0 = 2^53 is 2^52 with the next exponent
Carried(neg, k0, b) ==
  Pack(neg, IF k0 = Two53 THEN Two52 ELSE k0, IF k0 = Two53 THEN b + 1 ELSE b)

Rounded(neg, sc, b) == Carried(neg, RoundHalfEven(sc.N, sc.x), b)

NearestAt(neg, M, E, b) == Rounded(neg, Scaled(M, E, b), b)

\* the double nearest to M * 10^E, for M > 0
Nearest(neg, M, E) ==
  NearestAt(neg, M, E, BinExp(M, E, Max(Log2Guess(M, E) - 52, -1074)))

\* a decimal of at most 15 digits between 1e-307 and 1e308 is the shortest
\* decimal of its double; 1e309 and more is an infinity, less than 1e-324
\* is 0
Canonical(neg, M, E) ==
  IF M = <<>> THEN Zero
  ELSE IF E + Len(M) - 1 > 308 THEN Inf(neg)
  ELSE IF E + Len(M) - 1 < -324 THEN Zero
  ELSE IF Len(M) <= 15 /\ E + Len(M) - 1 >= -307 /\ E + Len(M) - 1 <= 307
       THEN [k |-> "fin", neg |-> neg, d |-> M, e |-> E]
  ELSE Nearest(neg, M, E)

\* The double nearest to the decimal M0 * 10^E0 (negated when neg).
ToDouble(neg, M0, E0) ==
  Canonical(neg, StripRight(StripLeft(M0)), E0 + (Len(M0) - LastNonZero(M0)))

----------------------------------------------------------------------------
(* JavaScript values carried by a request (body fields, query parameter). *)
(* A number value is a JSON number: the decimal d * 10^e, negated when     *)
(* neg, with any number of digits d.                                       *)

Undef  == [t |-> "undef", s |-> <<>>, neg |-> FALSE, d |-> <<>>, e |-> 0]
JsNull == [t |-> "null",  s |-> <<>>, neg |-> FALSE, d |-> <<>>, e |-> 0]
Str(s) == [t |-> "str",   s |-> s,    neg |-> FALSE, d |-> <<>>, e |-> 0]
NumDec(neg, d, e) == [t |-> "num", s |-> <<>>, neg |-> neg, d |-> d, e |-> e]
\* the JSON number n * 10^e of an integer n
NumE(n, e) == NumDec(n < 0, IntDigits(Abs(n)), e)
Num(n) == NumE(n, 0)
\* a repeated query/body parameter (?q=a&q=b): an array of two strings
ArrAB  == [t |-> "arr",   s |-> <<>>, neg |-> FALSE, d |-> <<>>, e |-> 0]

----------------------------------------------------------------------------
(* Characters. A string of the module is a sequence of UTF-16 code units   *)
(* of the Basic Multilingual Plane, none of them a surrogate. A code unit   *)
(* that can be written in a string of this module stands for itself ("A",  *)
(* "é", "Σ"); each other one is named by its code point: "U+0178" is the   *)
(* capital Y with diaeresis, "U+2003" the em space, "U+0060" the backtick. *)
(* The tables give every such code unit that has an upper case, a lower    *)
(* case, or a part in the Final_Sigma rule, as the Unicode data of the     *)
(* runtime (version 17) has them. WhiteSpace is the WhiteSpace and         *)
(* LineTerminator of ECMAScript.                                           *)

WhiteSpace ==
  { "\t","\n","","\f","\r"," "," "," ","U+2000","U+2001","U+2002","U+2003",
     "U+2004","U+2005","U+2006","U+2007","U+2008","U+2009","U+200A","U+2028","U+2029","U+202F","U+205F","U+3000",
     "﻿" }

\* String.prototype.toUpperCase: the characters with an upper case of one
\* character, and that upper case
UpperFrom ==
  << "a","b","c","d","e","f","g","h","i","j","k","l",
     "m","n","o","p","q","r","s","t","u","v","w","x",
     "y","z","µ","à","á","â","ã","ä","å","æ","ç","è",
     "é","ê","ë","ì","í","î","ï","ð","ñ","ò","ó","ô",
     "õ","ö","ø","ù","ú","û","ü","ý","þ","ÿ","U+0101","U+0103",
     "U+0105","U+0107","U+0109","U+010B","U+010D","U+010F","U+0111","U+0113","U+0115","U+0117","U+0119","U+011B",
     "U+011D","U+011F","U+0121","U+0123","U+0125","U+0127","U+0129","U+012B","U+012D","U+012F","U+0131","U+0133",
     "U+0135","U+0137","U+013A","U+013C","U+013E","U+0140","U+0142","U+0144","U+0146","U+0148","U+014B","U+014D",
     "U+014F","U+0151","U+0153","U+0155","U+0157","U+0159","U+015B","U+015D","U+015F","U+0161","U+0163","U+0165",
     "U+0167","U+0169","U+016B","U+016D","U+016F","U+0171","U+0173","U+0175","U+0177","U+017A","U+017C","U+017E",
     "U+017F","ƀ","ƃ","ƅ","ƈ","ƌ","ƒ","ƕ","ƙ","ƚ","ƛ","ƞ",
     "ơ","ƣ","ƥ","ƨ","ƭ","ư","ƴ","ƶ","ƹ","ƽ","ƿ","ǅ",
     "ǆ","ǈ","ǉ","ǋ","ǌ","ǎ","ǐ","ǒ","ǔ","ǖ","ǘ","ǚ",
     "ǜ","ǝ","ǟ","ǡ","ǣ","ǥ","ǧ","ǩ","ǫ","ǭ","ǯ","ǲ",
     "ǳ","ǵ","ǹ","ǻ","ǽ","ǿ","U+0201","U+0203","U+0205","U+0207","U+0209","U+020B",
     "U+020D","U+020F","U+0211","U+0213","U+0215","U+0217","U+0219","U+021B","U+021D","U+021F","U+0223","U+0225",
     "U+0227","U+0229","U+022B","U+022D","U+022F","U+0231","U+0233","U+023C","U+023F","U+0240","U+0242","U+0247",
     "U+0249","U+024B","U+024D","U+024F","U+0250","U+0251","U+0252","U+0253","U+0254","U+0256","U+0257","U+0259",
     "U+025B","U+025C","U+0260","U+0261","U+0263","U+0264","U+0265","U+0266","U+0268","U+0269","U+026A","U+026B",
     "U+026C","U+026F","U+0271","U+0272","U+0275","U+027D","ʀ","ʂ","ʃ","ʇ","ʈ","ʉ",
     "ʊ","ʋ","ʌ","ʒ","ʝ","ʞ","U+0345","U+0371","U+0373","U+0377","U+037B","U+037C",
     "U+037D","ά","έ","ή","ί","α","β","γ","δ","ε","ζ","η",
     "θ","ι","κ","λ","μ","ν","ξ","ο","π","ρ","ς","σ",
     "τ","υ","φ","χ","ψ","ω","ϊ","ϋ","ό","ύ","ώ","ϐ",
     "ϑ","ϕ","ϖ","ϗ","ϙ","ϛ","ϝ","ϟ","ϡ","ϣ","ϥ","ϧ",
     "ϩ","ϫ","ϭ","ϯ","ϰ","ϱ","ϲ","ϳ","ϵ","ϸ","ϻ","U+0430",
     "U+0431","U+0432","U+0433","U+0434","U+0435","U+0436","U+0437","U+0438","U+0439","U+043A","U+043B","U+043C",
     "U+043D","U+043E","U+043F","U+0440","U+0441","U+0442","U+0443","U+0444","U+0445","U+0446","U+0447","U+0448",
     "U+0449","U+044A","U+044B","U+044C","U+044D","U+044E","U+044F","U+0450","U+0451","U+0452","U+0453","U+0454",
     "U+0455","U+0456","U+0457","U+0458","U+0459","U+045A","U+045B","U+045C","U+045D","U+045E","U+045F","U+0461",
     "U+0463","U+0465","U+0467","U+0469","U+046B","U+046D","U+046F","U+0471","U+0473","U+0475","U+0477","U+0479",
     "U+047B","U+047D","U+047F","ҁ","ҋ","ҍ","ҏ","ґ","ғ","ҕ","җ","ҙ",
     "қ","ҝ","ҟ","ҡ","ң","ҥ","ҧ","ҩ","ҫ","ҭ","ү","ұ",
     "ҳ","ҵ","ҷ","ҹ","һ","ҽ","ҿ","ӂ","ӄ","ӆ","ӈ","ӊ",
     "ӌ","ӎ","ӏ","ӑ","ӓ","ӕ","ӗ","ә","ӛ","ӝ","ӟ","ӡ",
     "ӣ","ӥ","ӧ","ө","ӫ","ӭ","ӯ","ӱ","ӳ","ӵ","ӷ","ӹ",
     "ӻ","ӽ","ӿ","U+0501","U+0503","U+0505","U+0507","U+0509","U+050B","U+050D","U+050F","U+0511",
     "U+0513","U+0515","U+0517","U+0519","U+051B","U+051D","U+051F","U+0521","U+0523","U+0525","U+0527","U+0529",
     "U+052B","U+052D","U+052F","U+0561","U+0562","U+0563","U+0564","U+0565","U+0566","U+0567","U+0568","U+0569",
     "U+056A","U+056B","U+056C","U+056D","U+056E","U+056F","U+0570","U+0571","U+0572","U+0573","U+0574","U+0575",
     "U+0576","U+0577","U+0578","U+0579","U+057A","U+057B","U+057C","U+057D","U+057E","U+057F","ր","ց",
     "ւ","փ","ք","օ","ֆ","ა","ბ","გ","დ","ე","ვ","ზ",
     "თ","ი","კ","ლ","მ","ნ","ო","პ","ჟ","რ","ს","ტ",
     "უ","ფ","ქ","ღ","ყ","შ","ჩ","ც","ძ","წ","ჭ","ხ",
     "ჯ","ჰ","ჱ","ჲ","ჳ","ჴ","ჵ","ჶ","ჷ","ჸ","ჹ","ჺ",
     "ჽ","ჾ","ჿ","ᏸ","ᏹ","ᏺ","ᏻ","ᏼ","ᏽ","ᲀ","ᲁ","ᲂ",
     "ᲃ","ᲄ","ᲅ","ᲆ","ᲇ","ᲈ","ᲊ","U+1D79","U+1D7D","ᶎ","U+1E01","U+1E03",
     "U+1E05","U+1E07","U+1E09","U+1E0B","U+1E0D","U+1E0F","U+1E11","U+1E13","U+1E15","U+1E17","U+1E19","U+1E1B",
     "U+1E1D","U+1E1F","U+1E21","U+1E23","U+1E25","U+1E27","U+1E29","U+1E2B","U+1E2D","U+1E2F","U+1E31","U+1E33",
     "U+1E35","U+1E37","U+1E39","U+1E3B","U+1E3D","U+1E3F","U+1E41","U+1E43","U+1E45","U+1E47","U+1E49","U+1E4B",
     "U+1E4D","U+1E4F","U+1E51","U+1E53","U+1E55","U+1E57","U+1E59","U+1E5B","U+1E5D","U+1E5F","U+1E61","U+1E63",
     "U+1E65","U+1E67","U+1E69","U+1E6B","U+1E6D","U+1E6F","U+1E71","U+1E73","U+1E75","U+1E77","U+1E79","U+1E7B",
     "U+1E7D","U+1E7F","ẁ","ẃ","ẅ","ẇ","ẉ","ẋ","ẍ","ẏ","ẑ","ẓ",
     "ẕ","ẛ","ạ","ả","ấ","ầ","ẩ","ẫ","ậ","ắ","ằ","ẳ",
     "ẵ","ặ","ẹ","ẻ","ẽ","ế","ề","ể","ễ","ệ","ỉ","ị",
     "ọ","ỏ","ố","ồ","ổ","ỗ","ộ","ớ","ờ","ở","ỡ","ợ",
     "ụ","ủ","ứ","ừ","ử","ữ","ự","ỳ","ỵ","ỷ","ỹ","ỻ",
     "ỽ","ỿ","U+1F00","U+1F01","U+1F02","U+1F03","U+1F04","U+1F05","U+1F06","U+1F07","U+1F10","U+1F11",
     "U+1F12","U+1F13","U+1F14","U+1F15","U+1F20","U+1F21","U+1F22","U+1F23","U+1F24","U+1F25","U+1F26","U+1F27",
     "U+1F30","U+1F31","U+1F32","U+1F33","U+1F34","U+1F35","U+1F36","U+1F37","U+1F40","U+1F41","U+1F42","U+1F43",
     "U+1F44","U+1F45","U+1F51","U+1F53","U+1F55","U+1F57","U+1F60","U+1F61","U+1F62","U+1F63","U+1F64","U+1F65",
     "U+1F66","U+1F67","U+1F70","U+1F71","U+1F72","U+1F73","U+1F74","U+1F75","U+1F76","U+1F77","U+1F78","U+1F79",
     "U+1F7A","U+1F7B","U+1F7C","U+1F7D","ᾰ","ᾱ","ι","ῐ","ῑ","ῠ","ῡ","ῥ",
     "U+214E","U+2170","U+2171","U+2172","U+2173","U+2174","U+2175","U+2176","U+2177","U+2178","U+2179","U+217A",
     "U+217B","U+217C","U+217D","U+217E","U+217F","ↄ","ⓐ","ⓑ","ⓒ","ⓓ","ⓔ","ⓕ",
     "ⓖ","ⓗ","ⓘ","ⓙ","ⓚ","ⓛ","ⓜ","ⓝ","ⓞ","ⓟ","ⓠ","ⓡ",
     "ⓢ","ⓣ","ⓤ","ⓥ","ⓦ","ⓧ","ⓨ","ⓩ","U+2C30","U+2C31","U+2C32","U+2C33",
     "U+2C34","U+2C35","U+2C36","U+2C37","U+2C38","U+2C39","U+2C3A","U+2C3B","U+2C3C","U+2C3D","U+2C3E","U+2C3F",
     "U+2C40","U+2C41","U+2C42","U+2C43","U+2C44","U+2C45","U+2C46","U+2C47","U+2C48","U+2C49","U+2C4A","U+2C4B",
     "U+2C4C","U+2C4D","U+2C4E","U+2C4F","U+2C50","U+2C51","U+2C52","U+2C53","U+2C54","U+2C55","U+2C56","U+2C57",
     "U+2C58","U+2C59","U+2C5A","U+2C5B","U+2C5C","U+2C5D","U+2C5E","U+2C5F","U+2C61","U+2C65","U+2C66","U+2C68",
     "U+2C6A","U+2C6C","U+2C73","U+2C76","ⲁ","ⲃ","ⲅ","ⲇ","ⲉ","ⲋ","ⲍ","ⲏ",
     "ⲑ","ⲓ","ⲕ","ⲗ","ⲙ","ⲛ","ⲝ","ⲟ","ⲡ","ⲣ","ⲥ","ⲧ",
     "ⲩ","ⲫ","ⲭ","ⲯ","ⲱ","ⲳ","ⲵ","ⲷ","ⲹ","ⲻ","ⲽ","ⲿ",
     "ⳁ","ⳃ","ⳅ","ⳇ","ⳉ","ⳋ","ⳍ","ⳏ","ⳑ","ⳓ","ⳕ","ⳗ",
     "ⳙ","ⳛ","ⳝ","ⳟ","ⳡ","ⳣ","ⳬ","ⳮ","ⳳ","U+2D00","U+2D01","U+2D02",
     "U+2D03","U+2D04","U+2D05","U+2D06","U+2D07","U+2D08","U+2D09","U+2D0A","U+2D0B","U+2D0C","U+2D0D","U+2D0E",
     "U+2D0F","U+2D10","U+2D11","U+2D12","U+2D13","U+2D14","U+2D15","U+2D16","U+2D17","U+2D18","U+2D19","U+2D1A",
     "U+2D1B","U+2D1C","U+2D1D","U+2D1E","U+2D1F","U+2D20","U+2D21","U+2D22","U+2D23","U+2D24","U+2D25","U+2D27",
     "U+2D2D","U+A641","U+A643","U+A645","U+A647","U+A649","U+A64B","U+A64D","U+A64F","U+A651","U+A653","U+A655",
     "U+A657","U+A659","U+A65B","U+A65D","U+A65F","U+A661","U+A663","U+A665","U+A667","U+A669","U+A66B","U+A66D",
     "ꚁ","ꚃ","ꚅ","ꚇ","ꚉ","ꚋ","ꚍ","ꚏ","ꚑ","ꚓ","ꚕ","ꚗ",
     "ꚙ","ꚛ","U+A723","U+A725","U+A727","U+A729","U+A72B","U+A72D","U+A72F","U+A733","U+A735","U+A737",
     "U+A739","U+A73B","U+A73D","U+A73F","U+A741","U+A743","U+A745","U+A747","U+A749","U+A74B","U+A74D","U+A74F",
     "U+A751","U+A753","U+A755","U+A757","U+A759","U+A75B","U+A75D","U+A75F","U+A761","U+A763","U+A765","U+A767",
     "U+A769","U+A76B","U+A76D","U+A76F","U+A77A","U+A77C","U+A77F","ꞁ","ꞃ","ꞅ","ꞇ","ꞌ",
     "ꞑ","ꞓ","ꞔ","ꞗ","ꞙ","ꞛ","ꞝ","ꞟ","ꞡ","ꞣ","ꞥ","ꞧ",
     "ꞩ","ꞵ","ꞷ","ꞹ","ꞻ","ꞽ","ꞿ","ꟁ","ꟃ","ꟈ","ꟊ","ꟍ",
     "꟏","ꟑ","ꟓ","ꟕ","ꟗ","ꟙ","ꟛ","ꟶ","U+AB53","U+AB70","U+AB71","U+AB72",
     "U+AB73","U+AB74","U+AB75","U+AB76","U+AB77","U+AB78","U+AB79","U+AB7A","U+AB7B","U+AB7C","U+AB7D","U+AB7E",
     "U+AB7F","ꮀ","ꮁ","ꮂ","ꮃ","ꮄ","ꮅ","ꮆ","ꮇ","ꮈ","ꮉ","ꮊ",
     "ꮋ","ꮌ","ꮍ","ꮎ","ꮏ","ꮐ","ꮑ","ꮒ","ꮓ","ꮔ","ꮕ","ꮖ",
     "ꮗ","ꮘ","ꮙ","ꮚ","ꮛ","ꮜ","ꮝ","ꮞ","ꮟ","ꮠ","ꮡ","ꮢ",
     "ꮣ","ꮤ","ꮥ","ꮦ","ꮧ","ꮨ","ꮩ","ꮪ","ꮫ","ꮬ","ꮭ","ꮮ",
     "ꮯ","ꮰ","ꮱ","ꮲ","ꮳ","ꮴ","ꮵ","ꮶ","ꮷ","ꮸ","ꮹ","ꮺ",
     "ꮻ","ꮼ","ꮽ","ꮾ","ꮿ","U+FF41","U+FF42","U+FF43","U+FF44","U+FF45","U+FF46","U+FF47",
     "U+FF48","U+FF49","U+FF4A","U+FF4B","U+FF4C","U+FF4D","U+FF4E","U+FF4F","U+FF50","U+FF51","U+FF52","U+FF53",
     "U+FF54","U+FF55","U+FF56","U+FF57","U+FF58","U+FF59","U+FF5A" >>

UpperTo ==
  << "A","B","C","D","E","F","G","H","I","J","K","L",
     "M","N","O","P","Q","R","S","T","U","V","W","X",
     "Y","Z","Μ","À","Á","Â","Ã","Ä","Å","Æ","Ç","È",
     "É","Ê","Ë","Ì","Í","Î","Ï","Ð","Ñ","Ò","Ó","Ô",
     "Õ","Ö","Ø","Ù","Ú","Û","Ü","Ý","Þ","U+0178","U+0100","U+0102",
     "U+0104","U+0106","U+0108","U+010A","U+010C","U+010E","U+0110","U+0112","U+0114","U+0116","U+0118","U+011A",
     "U+011C","U+011E","U+0120","U+0122","U+0124","U+0126","U+0128","U+012A","U+012C","U+012E","I","U+0132",
     "U+0134","U+0136","U+0139","U+013B","U+013D","U+013F","U+0141","U+0143","U+0145","U+0147","U+014A","U+014C",
     "U+014E","U+0150","U+0152","U+0154","U+0156","U+0158","U+015A","U+015C","U+015E","U+0160","U+0162","U+0164",
     "U+0166","U+0168","U+016A","U+016C","U+016E","U+0170","U+0172","U+0174","U+0176","U+0179","U+017B","U+017D",
     "S","U+0243","Ƃ","Ƅ","Ƈ","Ƌ","Ƒ","Ƕ","Ƙ","U+023D","Ƛ","U+0220",
     "Ơ","Ƣ","Ƥ","Ƨ","Ƭ","Ư","Ƴ","Ƶ","Ƹ","Ƽ","Ƿ","Ǆ",
     "Ǆ","Ǉ","Ǉ","Ǌ","Ǌ","Ǎ","Ǐ","Ǒ","Ǔ","Ǖ","Ǘ","Ǚ",
     "Ǜ","Ǝ","Ǟ","Ǡ","Ǣ","Ǥ","Ǧ","Ǩ","Ǫ","Ǭ","Ǯ","Ǳ",
     "Ǳ","Ǵ","Ǹ","Ǻ","Ǽ","Ǿ","U+0200","U+0202","U+0204","U+0206","U+0208","U+020A",
     "U+020C","U+020E","U+0210","U+0212","U+0214","U+0216","U+0218","U+021A","U+021C","U+021E","U+0222","U+0224",
     "U+0226","U+0228","U+022A","U+022C","U+022E","U+0230","U+0232","U+023B","U+2C7E","U+2C7F","U+0241","U+0246",
     "U+0248","U+024A","U+024C","U+024E","U+2C6F","U+2C6D","U+2C70","Ɓ","Ɔ","Ɖ","Ɗ","Ə",
     "Ɛ","Ɜ","Ɠ","Ɡ","Ɣ","Ɤ","Ɥ","Ɦ","Ɨ","Ɩ","Ɪ","U+2C62",
     "Ɬ","Ɯ","U+2C6E","Ɲ","Ɵ","U+2C64","Ʀ","Ʂ","Ʃ","Ʇ","Ʈ","U+0244",
     "Ʊ","Ʋ","U+0245","Ʒ","Ʝ","Ʞ","Ι","U+0370","U+0372","U+0376","Ͻ","Ͼ",
     "Ͽ","Ά","Έ","Ή","Ί","Α","Β","Γ","Δ","Ε","Ζ","Η",
     "Θ","Ι","Κ","Λ","Μ","Ν","Ξ","Ο","Π","Ρ","Σ","Σ",
     "Τ","Υ","Φ","Χ","Ψ","Ω","Ϊ","Ϋ","Ό","Ύ","Ώ","Β",
     "Θ","Φ","Π","Ϗ","Ϙ","Ϛ","Ϝ","Ϟ","Ϡ","Ϣ","Ϥ","Ϧ",
     "Ϩ","Ϫ","Ϭ","Ϯ","Κ","Ρ","Ϲ","U+037F","Ε","Ϸ","Ϻ","U+0410",
     "U+0411","U+0412","U+0413","U+0414","U+0415","U+0416","U+0417","U+0418","U+0419","U+041A","U+041B","U+041C",
     "U+041D","U+041E","U+041F","U+0420","U+0421","U+0422","U+0423","U+0424","U+0425","U+0426","U+0427","U+0428",
     "U+0429","U+042A","U+042B","U+042C","U+042D","U+042E","U+042F","U+0400","U+0401","U+0402","U+0403","U+0404",
     "U+0405","U+0406","U+0407","U+0408","U+0409","U+040A","U+040B","U+040C","U+040D","U+040E","U+040F","U+0460",
     "U+0462","U+0464","U+0466","U+0468","U+046A","U+046C","U+046E","U+0470","U+0472","U+0474","U+0476","U+0478",
     "U+047A","U+047C","U+047E","Ҁ","Ҋ","Ҍ","Ҏ","Ґ","Ғ","Ҕ","Җ","Ҙ",
     "Қ","Ҝ","Ҟ","Ҡ","Ң","Ҥ","Ҧ","Ҩ","Ҫ","Ҭ","Ү","Ұ",
     "Ҳ","Ҵ","Ҷ","Ҹ","Һ","Ҽ","Ҿ","Ӂ","Ӄ","Ӆ","Ӈ","Ӊ",
     "Ӌ","Ӎ","Ӏ","Ӑ","Ӓ","Ӕ","Ӗ","Ә","Ӛ","Ӝ","Ӟ","Ӡ",
     "Ӣ","Ӥ","Ӧ","Ө","Ӫ","Ӭ","Ӯ","Ӱ","Ӳ","Ӵ","Ӷ","Ӹ",
     "Ӻ","Ӽ","Ӿ","U+0500","U+0502","U+0504","U+0506","U+0508","U+050A","U+050C","U+050E","U+0510",
     "U+0512","U+0514","U+0516","U+0518","U+051A","U+051C","U+051E","U+0520","U+0522","U+0524","U+0526","U+0528",
     "U+052A","U+052C","U+052E","U+0531","U+0532","U+0533","U+0534","U+0535","U+0536","U+0537","U+0538","U+0539",
     "U+053A","U+053B","U+053C","U+053D","U+053E","U+053F","U+0540","U+0541","U+0542","U+0543","U+0544","U+0545",
     "U+0546","U+0547","U+0548","U+0549","U+054A","U+054B","U+054C","U+054D","U+054E","U+054F","U+0550","U+0551",
     "U+0552","U+0553","U+0554","U+0555","U+0556","Ა","Ბ","Გ","Დ","Ე","Ვ","Ზ",
     "Თ","Ი","Კ","Ლ","Მ","Ნ","Ო","Პ","Ჟ","Რ","Ს","Ტ",
     "Უ","Ფ","Ქ","Ღ","Ყ","Შ","Ჩ","Ც","Ძ","Წ","Ჭ","Ხ",
     "Ჯ","Ჰ","Ჱ","Ჲ","Ჳ","Ჴ","Ჵ","Ჶ","Ჷ","Ჸ","Ჹ","Ჺ",
     "Ჽ","Ჾ","Ჿ","Ᏸ","Ᏹ","Ᏺ","Ᏻ","Ᏼ","Ᏽ","U+0412","U+0414","U+041E",
     "U+0421","U+0422","U+0422","U+042A","U+0462","U+A64A","Ᲊ","U+A77D","U+2C63","Ᶎ","U+1E00","U+1E02",
     "U+1E04","U+1E06","U+1E08","U+1E0A","U+1E0C","U+1E0E","U+1E10","U+1E12","U+1E14","U+1E16","U+1E18","U+1E1A",
     "U+1E1C","U+1E1E","U+1E20","U+1E22","U+1E24","U+1E26","U+1E28","U+1E2A","U+1E2C","U+1E2E","U+1E30","U+1E32",
     "U+1E34","U+1E36","U+1E38","U+1E3A","U+1E3C","U+1E3E","U+1E40","U+1E42","U+1E44","U+1E46","U+1E48","U+1E4A",
     "U+1E4C","U+1E4E","U+1E50","U+1E52","U+1E54","U+1E56","U+1E58","U+1E5A","U+1E5C","U+1E5E","U+1E60","U+1E62",
     "U+1E64","U+1E66","U+1E68","U+1E6A","U+1E6C","U+1E6E","U+1E70","U+1E72","U+1E74","U+1E76","U+1E78","U+1E7A",
     "U+1E7C","U+1E7E","Ẁ","Ẃ","Ẅ","Ẇ","Ẉ","Ẋ","Ẍ","Ẏ","Ẑ","Ẓ",
     "Ẕ","U+1E60","Ạ","Ả","Ấ","Ầ","Ẩ","Ẫ","Ậ","Ắ","Ằ","Ẳ",
     "Ẵ","Ặ","Ẹ","Ẻ","Ẽ","Ế","Ề","Ể","Ễ","Ệ","Ỉ","Ị",
     "Ọ","Ỏ","Ố","Ồ","Ổ","Ỗ","Ộ","Ớ","Ờ","Ở","Ỡ","Ợ",
     "Ụ","Ủ","Ứ","Ừ","Ử","Ữ","Ự","Ỳ","Ỵ","Ỷ","Ỹ","Ỻ",
     "Ỽ","Ỿ","U+1F08","U+1F09","U+1F0A","U+1F0B","U+1F0C","U+1F0D","U+1F0E","U+1F0F","U+1F18","U+1F19",
     "U+1F1A","U+1F1B","U+1F1C","U+1F1D","U+1F28","U+1F29","U+1F2A","U+1F2B","U+1F2C","U+1F2D","U+1F2E","U+1F2F",
     "U+1F38","U+1F39","U+1F3A","U+1F3B","U+1F3C","U+1F3D","U+1F3E","U+1F3F","U+1F48","U+1F49","U+1F4A","U+1F4B",
     "U+1F4C","U+1F4D","U+1F59","U+1F5B","U+1F5D","U+1F5F","U+1F68","U+1F69","U+1F6A","U+1F6B","U+1F6C","U+1F6D",
     "U+1F6E","U+1F6F","Ὰ","Ά","Ὲ","Έ","Ὴ","Ή","Ὶ","Ί","Ὸ","Ό",
     "Ὺ","Ύ","Ὼ","Ώ","Ᾰ","Ᾱ","Ι","Ῐ","Ῑ","Ῠ","Ῡ","Ῥ",
     "U+2132","U+2160","U+2161","U+2162","U+2163","U+2164","U+2165","U+2166","U+2167","U+2168","U+2169","U+216A",
     "U+216B","U+216C","U+216D","U+216E","U+216F","Ↄ","Ⓐ","Ⓑ","Ⓒ","Ⓓ","Ⓔ","Ⓕ",
     "Ⓖ","Ⓗ","Ⓘ","Ⓙ","Ⓚ","Ⓛ","Ⓜ","Ⓝ","Ⓞ","Ⓟ","Ⓠ","Ⓡ",
     "Ⓢ","Ⓣ","Ⓤ","Ⓥ","Ⓦ","Ⓧ","Ⓨ","Ⓩ","U+2C00","U+2C01","U+2C02","U+2C03",
     "U+2C04","U+2C05","U+2C06","U+2C07","U+2C08","U+2C09","U+2C0A","U+2C0B","U+2C0C","U+2C0D","U+2C0E","U+2C0F",
     "U+2C10","U+2C11","U+2C12","U+2C13","U+2C14","U+2C15","U+2C16","U+2C17","U+2C18","U+2C19","U+2C1A","U+2C1B",
     "U+2C1C","U+2C1D","U+2C1E","U+2C1F","U+2C20","U+2C21","U+2C22","U+2C23","U+2C24","U+2C25","U+2C26","U+2C27",
     "U+2C28","U+2C29","U+2C2A","U+2C2B","U+2C2C","U+2C2D","U+2C2E","U+2C2F","U+2C60","U+023A","U+023E","U+2C67",
     "U+2C69","U+2C6B","U+2C72","U+2C75","Ⲁ","Ⲃ","Ⲅ","Ⲇ","Ⲉ","Ⲋ","Ⲍ","Ⲏ",
     "Ⲑ","Ⲓ","Ⲕ","Ⲗ","Ⲙ","Ⲛ","Ⲝ","Ⲟ","Ⲡ","Ⲣ","Ⲥ","Ⲧ",
     "Ⲩ","Ⲫ","Ⲭ","Ⲯ","Ⲱ","Ⲳ","Ⲵ","Ⲷ","Ⲹ","Ⲻ","Ⲽ","Ⲿ",
     "Ⳁ","Ⳃ","Ⳅ","Ⳇ","Ⳉ","Ⳋ","Ⳍ","Ⳏ","Ⳑ","Ⳓ","Ⳕ","Ⳗ",
     "Ⳙ","Ⳛ","Ⳝ","Ⳟ","Ⳡ","Ⳣ","Ⳬ","Ⳮ","Ⳳ","Ⴀ","Ⴁ","Ⴂ",
     "Ⴃ","Ⴄ","Ⴅ","Ⴆ","Ⴇ","Ⴈ","Ⴉ","Ⴊ","Ⴋ","Ⴌ","Ⴍ","Ⴎ",
     "Ⴏ","Ⴐ","Ⴑ","Ⴒ","Ⴓ","Ⴔ","Ⴕ","Ⴖ","Ⴗ","Ⴘ","Ⴙ","Ⴚ",
     "Ⴛ","Ⴜ","Ⴝ","Ⴞ","Ⴟ","Ⴠ","Ⴡ","Ⴢ","Ⴣ","Ⴤ","Ⴥ","Ⴧ",
     "Ⴭ","U+A640","U+A642","U+A644","U+A646","U+A648","U+A64A","U+A64C","U+A64E","U+A650","U+A652","U+A654",
     "U+A656","U+A658","U+A65A","U+A65C","U+A65E","U+A660","U+A662","U+A664","U+A666","U+A668","U+A66A","U+A66C",
     "Ꚁ","Ꚃ","Ꚅ","Ꚇ","Ꚉ","Ꚋ","Ꚍ","Ꚏ","Ꚑ","Ꚓ","Ꚕ","Ꚗ",
     "Ꚙ","Ꚛ","U+A722","U+A724","U+A726","U+A728","U+A72A","U+A72C","U+A72E","U+A732","U+A734","U+A736",
     "U+A738","U+A73A","U+A73C","U+A73E","U+A740","U+A742","U+A744","U+A746","U+A748","U+A74A","U+A74C","U+A74E",
     "U+A750","U+A752","U+A754","U+A756","U+A758","U+A75A","U+A75C","U+A75E","U+A760","U+A762","U+A764","U+A766",
     "U+A768","U+A76A","U+A76C","U+A76E","U+A779","U+A77B","U+A77E","Ꞁ","Ꞃ","Ꞅ","Ꞇ","Ꞌ",
     "Ꞑ","Ꞓ","Ꞔ","Ꞗ","Ꞙ","Ꞛ","Ꞝ","Ꞟ","Ꞡ","Ꞣ","Ꞥ","Ꞧ",
     "Ꞩ","Ꞵ","Ꞷ","Ꞹ","Ꞻ","Ꞽ","Ꞿ","Ꟁ","Ꟃ","Ꟈ","Ꟊ","Ꟍ",
     "꟎","Ꟑ","꟒","꟔","Ꟗ","Ꟙ","Ꟛ","Ꟶ","Ꭓ","Ꭰ","Ꭱ","Ꭲ",
     "Ꭳ","Ꭴ","Ꭵ","Ꭶ","Ꭷ","Ꭸ","Ꭹ","Ꭺ","Ꭻ","Ꭼ","Ꭽ","Ꭾ",
     "Ꭿ","Ꮀ","Ꮁ","Ꮂ","Ꮃ","Ꮄ","Ꮅ","Ꮆ","Ꮇ","Ꮈ","Ꮉ","Ꮊ",
     "Ꮋ","Ꮌ","Ꮍ","Ꮎ","Ꮏ","Ꮐ","Ꮑ","Ꮒ","Ꮓ","Ꮔ","Ꮕ","Ꮖ",
     "Ꮗ","Ꮘ","Ꮙ","Ꮚ","Ꮛ","Ꮜ","Ꮝ","Ꮞ","Ꮟ","Ꮠ","Ꮡ","Ꮢ",
     "Ꮣ","Ꮤ","Ꮥ","Ꮦ","Ꮧ","Ꮨ","Ꮩ","Ꮪ","Ꮫ","Ꮬ","Ꮭ","Ꮮ",
     "Ꮯ","Ꮰ","Ꮱ","Ꮲ","Ꮳ","Ꮴ","Ꮵ","Ꮶ","Ꮷ","Ꮸ","Ꮹ","Ꮺ",
     "Ꮻ","Ꮼ","Ꮽ","Ꮾ","Ꮿ","U+FF21","U+FF22","U+FF23","U+FF24","U+FF25","U+FF26","U+FF27",
     "U+FF28","U+FF29","U+FF2A","U+FF2B","U+FF2C","U+FF2D","U+FF2E","U+FF2F","U+FF30","U+FF31","U+FF32","U+FF33",
     "U+FF34","U+FF35","U+FF36","U+FF37","U+FF38","U+FF39","U+FF3A" >>

\* the characters with an upper case of several characters
UpperSpecialFrom ==
  << "ß","U+0149","ǰ","ΐ","ΰ","և","ẖ","ẗ","ẘ","ẙ","ẚ","U+1F50",
     "U+1F52","U+1F54","U+1F56","ᾀ","ᾁ","ᾂ","ᾃ","ᾄ","ᾅ","ᾆ","ᾇ","ᾈ",
     "ᾉ","ᾊ","ᾋ","ᾌ","ᾍ","ᾎ","ᾏ","ᾐ","ᾑ","ᾒ","ᾓ","ᾔ",
     "ᾕ","ᾖ","ᾗ","ᾘ","ᾙ","ᾚ","ᾛ","ᾜ","ᾝ","ᾞ","ᾟ","ᾠ",
     "ᾡ","ᾢ","ᾣ","ᾤ","ᾥ","ᾦ","ᾧ","ᾨ","ᾩ","ᾪ","ᾫ","ᾬ",
     "ᾭ","ᾮ","ᾯ","ᾲ","ᾳ","ᾴ","ᾶ","ᾷ","ᾼ","ῂ","ῃ","ῄ",
     "ῆ","ῇ","ῌ","ῒ","ΐ","ῖ","ῗ","ῢ","ΰ","ῤ","ῦ","ῧ",
     "ῲ","ῳ","ῴ","ῶ","ῷ","ῼ","U+FB00","U+FB01","U+FB02","U+FB03","U+FB04","U+FB05",
     "U+FB06","U+FB13","U+FB14","U+FB15","U+FB16","U+FB17" >>

UpperSpecialTo ==
  << <<"S","S">>,<<"ʼ","N">>,<<"J","U+030C">>,<<"Ι","U+0308","U+0301">>,<<"Υ","U+0308","U+0301">>,
     <<"U+0535","U+0552">>,<<"H","U+0331">>,<<"T","U+0308">>,<<"W","U+030A">>,<<"Y","U+030A">>,
     <<"A","ʾ">>,<<"Υ","U+0313">>,<<"Υ","U+0313","U+0300">>,<<"Υ","U+0313","U+0301">>,<<"Υ","U+0313","U+0342">>,
     <<"U+1F08","Ι">>,<<"U+1F09","Ι">>,<<"U+1F0A","Ι">>,<<"U+1F0B","Ι">>,<<"U+1F0C","Ι">>,
     <<"U+1F0D","Ι">>,<<"U+1F0E","Ι">>,<<"U+1F0F","Ι">>,<<"U+1F08","Ι">>,<<"U+1F09","Ι">>,
     <<"U+1F0A","Ι">>,<<"U+1F0B","Ι">>,<<"U+1F0C","Ι">>,<<"U+1F0D","Ι">>,<<"U+1F0E","Ι">>,
     <<"U+1F0F","Ι">>,<<"U+1F28","Ι">>,<<"U+1F29","Ι">>,<<"U+1F2A","Ι">>,<<"U+1F2B","Ι">>,
     <<"U+1F2C","Ι">>,<<"U+1F2D","Ι">>,<<"U+1F2E","Ι">>,<<"U+1F2F","Ι">>,<<"U+1F28","Ι">>,
     <<"U+1F29","Ι">>,<<"U+1F2A","Ι">>,<<"U+1F2B","Ι">>,<<"U+1F2C","Ι">>,<<"U+1F2D","Ι">>,
     <<"U+1F2E","Ι">>,<<"U+1F2F","Ι">>,<<"U+1F68","Ι">>,<<"U+1F69","Ι">>,<<"U+1F6A","Ι">>,
     <<"U+1F6B","Ι">>,<<"U+1F6C","Ι">>,<<"U+1F6D","Ι">>,<<"U+1F6E","Ι">>,<<"U+1F6F","Ι">>,
     <<"U+1F68","Ι">>,<<"U+1F69","Ι">>,<<"U+1F6A","Ι">>,<<"U+1F6B","Ι">>,<<"U+1F6C","Ι">>,
     <<"U+1F6D","Ι">>,<<"U+1F6E","Ι">>,<<"U+1F6F","Ι">>,<<"Ὰ","Ι">>,<<"Α","Ι">>,
     <<"Ά","Ι">>,<<"Α","U+0342">>,<<"Α","U+0342","Ι">>,<<"Α","Ι">>,<<"Ὴ","Ι">>,
     <<"Η","Ι">>,<<"Ή","Ι">>,<<"Η","U+0342">>,<<"Η","U+0342","Ι">>,<<"Η","Ι">>,
     <<"Ι","U+0308","U+0300">>,<<"Ι","U+0308","U+0301">>,<<"Ι","U+0342">>,<<"Ι","U+0308","U+0342">>,<<"Υ","U+0308","U+0300">>,
     <<"Υ","U+0308","U+0301">>,<<"Ρ","U+0313">>,<<"Υ","U+0342">>,<<"Υ","U+0308","U+0342">>,<<"Ὼ","Ι">>,
     <<"Ω","Ι">>,<<"Ώ","Ι">>,<<"Ω","U+0342">>,<<"Ω","U+0342","Ι">>,<<"Ω","Ι">>,
     <<"F","F">>,<<"F","I">>,<<"F","L">>,<<"F","F","I">>,<<"F","F","L">>,
     <<"S","T">>,<<"S","T">>,<<"U+0544","U+0546">>,<<"U+0544","U+0535">>,<<"U+0544","U+053B">>,
     <<"U+054E","U+0546">>,<<"U+0544","U+053D">> >>

\* String.prototype.toLowerCase: the characters with a lower case of one
\* character (but the capital sigma, whose lower case depends on its place),
\* and that lower case
LowerFrom ==
  << "A","B","C","D","E","F","G","H","I","J","K","L",
     "M","N","O","P","Q","R","S","T","U","V","W","X",
     "Y","Z","À","Á","Â","Ã","Ä","Å","Æ","Ç","È","É",
     "Ê","Ë","Ì","Í","Î","Ï","Ð","Ñ","Ò","Ó","Ô","Õ",
     "Ö","Ø","Ù","Ú","Û","Ü","Ý","Þ","U+0100","U+0102","U+0104","U+0106",
     "U+0108","U+010A","U+010C","U+010E","U+0110","U+0112","U+0114","U+0116","U+0118","U+011A","U+011C","U+011E",
     "U+0120","U+0122","U+0124","U+0126","U+0128","U+012A","U+012C","U+012E","U+0132","U+0134","U+0136","U+0139",
     "U+013B","U+013D","U+013F","U+0141","U+0143","U+0145","U+0147","U+014A","U+014C","U+014E","U+0150","U+0152",
     "U+0154","U+0156","U+0158","U+015A","U+015C","U+015E","U+0160","U+0162","U+0164","U+0166","U+0168","U+016A",
     "U+016C","U+016E","U+0170","U+0172","U+0174","U+0176","U+0178","U+0179","U+017B","U+017D","Ɓ","Ƃ",
     "Ƅ","Ɔ","Ƈ","Ɖ","Ɗ","Ƌ","Ǝ","Ə","Ɛ","Ƒ","Ɠ","Ɣ",
     "Ɩ","Ɨ","Ƙ","Ɯ","Ɲ","Ɵ","Ơ","Ƣ","Ƥ","Ʀ","Ƨ","Ʃ",
     "Ƭ","Ʈ","Ư","Ʊ","Ʋ","Ƴ","Ƶ","Ʒ","Ƹ","Ƽ","Ǆ","ǅ",
     "Ǉ","ǈ","Ǌ","ǋ","Ǎ","Ǐ","Ǒ","Ǔ","Ǖ","Ǘ","Ǚ","Ǜ",
     "Ǟ","Ǡ","Ǣ","Ǥ","Ǧ","Ǩ","Ǫ","Ǭ","Ǯ","Ǳ","ǲ","Ǵ",
     "Ƕ","Ƿ","Ǹ","Ǻ","Ǽ","Ǿ","U+0200","U+0202","U+0204","U+0206","U+0208","U+020A",
     "U+020C","U+020E","U+0210","U+0212","U+0214","U+0216","U+0218","U+021A","U+021C","U+021E","U+0220","U+0222",
     "U+0224","U+0226","U+0228","U+022A","U+022C","U+022E","U+0230","U+0232","U+023A","U+023B","U+023D","U+023E",
     "U+0241","U+0243","U+0244","U+0245","U+0246","U+0248","U+024A","U+024C","U+024E","U+0370","U+0372","U+0376",
     "U+037F","Ά","Έ","Ή","Ί","Ό","Ύ","Ώ","Α","Β","Γ","Δ",
     "Ε","Ζ","Η","Θ","Ι","Κ","Λ","Μ","Ν","Ξ","Ο","Π",
     "Ρ","Τ","Υ","Φ","Χ","Ψ","Ω","Ϊ","Ϋ","Ϗ","Ϙ","Ϛ",
     "Ϝ","Ϟ","Ϡ","Ϣ","Ϥ","Ϧ","Ϩ","Ϫ","Ϭ","Ϯ","ϴ","Ϸ",
     "Ϲ","Ϻ","Ͻ","Ͼ","Ͽ","U+0400","U+0401","U+0402","U+0403","U+0404","U+0405","U+0406",
     "U+0407","U+0408","U+0409","U+040A","U+040B","U+040C","U+040D","U+040E","U+040F","U+0410","U+0411","U+0412",
     "U+0413","U+0414","U+0415","U+0416","U+0417","U+0418","U+0419","U+041A","U+041B","U+041C","U+041D","U+041E",
     "U+041F","U+0420","U+0421","U+0422","U+0423","U+0424","U+0425","U+0426","U+0427","U+0428","U+0429","U+042A",
     "U+042B","U+042C","U+042D","U+042E","U+042F","U+0460","U+0462","U+0464","U+0466","U+0468","U+046A","U+046C",
     "U+046E","U+0470","U+0472","U+0474","U+0476","U+0478","U+047A","U+047C","U+047E","Ҁ","Ҋ","Ҍ",
     "Ҏ","Ґ","Ғ","Ҕ","Җ","Ҙ","Қ","Ҝ","Ҟ","Ҡ","Ң","Ҥ",
     "Ҧ","Ҩ","Ҫ","Ҭ","Ү","Ұ","Ҳ","Ҵ","Ҷ","Ҹ","Һ","Ҽ",
     "Ҿ","Ӏ","Ӂ","Ӄ","Ӆ","Ӈ","Ӊ","Ӌ","Ӎ","Ӑ","Ӓ","Ӕ",
     "Ӗ","Ә","Ӛ","Ӝ","Ӟ","Ӡ","Ӣ","Ӥ","Ӧ","Ө","Ӫ","Ӭ",
     "Ӯ","Ӱ","Ӳ","Ӵ","Ӷ","Ӹ","Ӻ","Ӽ","Ӿ","U+0500","U+0502","U+0504",
     "U+0506","U+0508","U+050A","U+050C","U+050E","U+0510","U+0512","U+0514","U+0516","U+0518","U+051A","U+051C",
     "U+051E","U+0520","U+0522","U+0524","U+0526","U+0528","U+052A","U+052C","U+052E","U+0531","U+0532","U+0533",
     "U+0534","U+0535","U+0536","U+0537","U+0538","U+0539","U+053A","U+053B","U+053C","U+053D","U+053E","U+053F",
     "U+0540","U+0541","U+0542","U+0543","U+0544","U+0545","U+0546","U+0547","U+0548","U+0549","U+054A","U+054B",
     "U+054C","U+054D","U+054E","U+054F","U+0550","U+0551","U+0552","U+0553","U+0554","U+0555","U+0556","Ⴀ",
     "Ⴁ","Ⴂ","Ⴃ","Ⴄ","Ⴅ","Ⴆ","Ⴇ","Ⴈ","Ⴉ","Ⴊ","Ⴋ","Ⴌ",
     "Ⴍ","Ⴎ","Ⴏ","Ⴐ","Ⴑ","Ⴒ","Ⴓ","Ⴔ","Ⴕ","Ⴖ","Ⴗ","Ⴘ",
     "Ⴙ","Ⴚ","Ⴛ","Ⴜ","Ⴝ","Ⴞ","Ⴟ","Ⴠ","Ⴡ","Ⴢ","Ⴣ","Ⴤ",
     "Ⴥ","Ⴧ","Ⴭ","Ꭰ","Ꭱ","Ꭲ","Ꭳ","Ꭴ","Ꭵ","Ꭶ","Ꭷ","Ꭸ",
     "Ꭹ","Ꭺ","Ꭻ","Ꭼ","Ꭽ","Ꭾ","Ꭿ","Ꮀ","Ꮁ","Ꮂ","Ꮃ","Ꮄ",
     "Ꮅ","Ꮆ","Ꮇ","Ꮈ","Ꮉ","Ꮊ","Ꮋ","Ꮌ","Ꮍ","Ꮎ","Ꮏ","Ꮐ",
     "Ꮑ","Ꮒ","Ꮓ","Ꮔ","Ꮕ","Ꮖ","Ꮗ","Ꮘ","Ꮙ","Ꮚ","Ꮛ","Ꮜ",
     "Ꮝ","Ꮞ","Ꮟ","Ꮠ","Ꮡ","Ꮢ","Ꮣ","Ꮤ","Ꮥ","Ꮦ","Ꮧ","Ꮨ",
     "Ꮩ","Ꮪ","Ꮫ","Ꮬ","Ꮭ","Ꮮ","Ꮯ","Ꮰ","Ꮱ","Ꮲ","Ꮳ","Ꮴ",
     "Ꮵ","Ꮶ","Ꮷ","Ꮸ","Ꮹ","Ꮺ","Ꮻ","Ꮼ","Ꮽ","Ꮾ","Ꮿ","Ᏸ",
     "Ᏹ","Ᏺ","Ᏻ","Ᏼ","Ᏽ","Ᲊ","Ა","Ბ","Გ","Დ","Ე","Ვ",
     "Ზ","Თ","Ი","Კ","Ლ","Მ","Ნ","Ო","Პ","Ჟ","Რ","Ს",
     "Ტ","Უ","Ფ","Ქ","Ღ","Ყ","Შ","Ჩ","Ც","Ძ","Წ","Ჭ",
     "Ხ","Ჯ","Ჰ","Ჱ","Ჲ","Ჳ","Ჴ","Ჵ","Ჶ","Ჷ","Ჸ","Ჹ",
     "Ჺ","Ჽ","Ჾ","Ჿ","U+1E00","U+1E02","U+1E04","U+1E06","U+1E08","U+1E0A","U+1E0C","U+1E0E",
     "U+1E10","U+1E12","U+1E14","U+1E16","U+1E18","U+1E1A","U+1E1C","U+1E1E","U+1E20","U+1E22","U+1E24","U+1E26",
     "U+1E28","U+1E2A","U+1E2C","U+1E2E","U+1E30","U+1E32","U+1E34","U+1E36","U+1E38","U+1E3A","U+1E3C","U+1E3E",
     "U+1E40","U+1E42","U+1E44","U+1E46","U+1E48","U+1E4A","U+1E4C","U+1E4E","U+1E50","U+1E52","U+1E54","U+1E56",
     "U+1E58","U+1E5A","U+1E5C","U+1E5E","U+1E60","U+1E62","U+1E64","U+1E66","U+1E68","U+1E6A","U+1E6C","U+1E6E",
     "U+1E70","U+1E72","U+1E74","U+1E76","U+1E78","U+1E7A","U+1E7C","U+1E7E","Ẁ","Ẃ","Ẅ","Ẇ",
     "Ẉ","Ẋ","Ẍ","Ẏ","Ẑ","Ẓ","Ẕ","ẞ","Ạ","Ả","Ấ","Ầ",
     "Ẩ","Ẫ","Ậ","Ắ","Ằ","Ẳ","Ẵ","Ặ","Ẹ","Ẻ","Ẽ","Ế",
     "Ề","Ể","Ễ","Ệ","Ỉ","Ị","Ọ","Ỏ","Ố","Ồ","Ổ","Ỗ",
     "Ộ","Ớ","Ờ","Ở","Ỡ","Ợ","Ụ","Ủ","Ứ","Ừ","Ử","Ữ",
     "Ự","Ỳ","Ỵ","Ỷ","Ỹ","Ỻ","Ỽ","Ỿ","U+1F08","U+1F09","U+1F0A","U+1F0B",
     "U+1F0C","U+1F0D","U+1F0E","U+1F0F","U+1F18","U+1F19","U+1F1A","U+1F1B","U+1F1C","U+1F1D","U+1F28","U+1F29",
     "U+1F2A","U+1F2B","U+1F2C","U+1F2D","U+1F2E","U+1F2F","U+1F38","U+1F39","U+1F3A","U+1F3B","U+1F3C","U+1F3D",
     "U+1F3E","U+1F3F","U+1F48","U+1F49","U+1F4A","U+1F4B","U+1F4C","U+1F4D","U+1F59","U+1F5B","U+1F5D","U+1F5F",
     "U+1F68","U+1F69","U+1F6A","U+1F6B","U+1F6C","U+1F6D","U+1F6E","U+1F6F","ᾈ","ᾉ","ᾊ","ᾋ",
     "ᾌ","ᾍ","ᾎ","ᾏ","ᾘ","ᾙ","ᾚ","ᾛ","ᾜ","ᾝ","ᾞ","ᾟ",
     "ᾨ","ᾩ","ᾪ","ᾫ","ᾬ","ᾭ","ᾮ","ᾯ","Ᾰ","Ᾱ","Ὰ","Ά",
     "ᾼ","Ὲ","Έ","Ὴ","Ή","ῌ","Ῐ","Ῑ","Ὶ","Ί","Ῠ","Ῡ",
     "Ὺ","Ύ","Ῥ","Ὸ","Ό","Ὼ","Ώ","ῼ","U+2126","U+212A","U+212B","U+2132",
     "U+2160","U+2161","U+2162","U+2163","U+2164","U+2165","U+2166","U+2167","U+2168","U+2169","U+216A","U+216B",
     "U+216C","U+216D","U+216E","U+216F","Ↄ","Ⓐ","Ⓑ","Ⓒ","Ⓓ","Ⓔ","Ⓕ","Ⓖ",
     "Ⓗ","Ⓘ","Ⓙ","Ⓚ","Ⓛ","Ⓜ","Ⓝ","Ⓞ","Ⓟ","Ⓠ","Ⓡ","Ⓢ",
     "Ⓣ","Ⓤ","Ⓥ","Ⓦ","Ⓧ","Ⓨ","Ⓩ","U+2C00","U+2C01","U+2C02","U+2C03","U+2C04",
     "U+2C05","U+2C06","U+2C07","U+2C08","U+2C09","U+2C0A","U+2C0B","U+2C0C","U+2C0D","U+2C0E","U+2C0F","U+2C10",
     "U+2C11","U+2C12","U+2C13","U+2C14","U+2C15","U+2C16","U+2C17","U+2C18","U+2C19","U+2C1A","U+2C1B","U+2C1C",
     "U+2C1D","U+2C1E","U+2C1F","U+2C20","U+2C21","U+2C22","U+2C23","U+2C24","U+2C25","U+2C26","U+2C27","U+2C28",
     "U+2C29","U+2C2A","U+2C2B","U+2C2C","U+2C2D","U+2C2E","U+2C2F","U+2C60","U+2C62","U+2C63","U+2C64","U+2C67",
     "U+2C69","U+2C6B","U+2C6D","U+2C6E","U+2C6F","U+2C70","U+2C72","U+2C75","U+2C7E","U+2C7F","Ⲁ","Ⲃ",
     "Ⲅ","Ⲇ","Ⲉ","Ⲋ","Ⲍ","Ⲏ","Ⲑ","Ⲓ","Ⲕ","Ⲗ","Ⲙ","Ⲛ",
     "Ⲝ","Ⲟ","Ⲡ","Ⲣ","Ⲥ","Ⲧ","Ⲩ","Ⲫ","Ⲭ","Ⲯ","Ⲱ","Ⲳ",
     "Ⲵ","Ⲷ","Ⲹ","Ⲻ","Ⲽ","Ⲿ","Ⳁ","Ⳃ","Ⳅ","Ⳇ","Ⳉ","Ⳋ",
     "Ⳍ","Ⳏ","Ⳑ","Ⳓ","Ⳕ","Ⳗ","Ⳙ","Ⳛ","Ⳝ","Ⳟ","Ⳡ","Ⳣ",
     "Ⳬ","Ⳮ","Ⳳ","U+A640","U+A642","U+A644","U+A646","U+A648","U+A64A","U+A64C","U+A64E","U+A650",
     "U+A652","U+A654","U+A656","U+A658","U+A65A","U+A65C","U+A65E","U+A660","U+A662","U+A664","U+A666","U+A668",
     "U+A66A","U+A66C","Ꚁ","Ꚃ","Ꚅ","Ꚇ","Ꚉ","Ꚋ","Ꚍ","Ꚏ","Ꚑ","Ꚓ",
     "Ꚕ","Ꚗ","Ꚙ","Ꚛ","U+A722","U+A724","U+A726","U+A728","U+A72A","U+A72C","U+A72E","U+A732",
     "U+A734","U+A736","U+A738","U+A73A","U+A73C","U+A73E","U+A740","U+A742","U+A744","U+A746","U+A748","U+A74A",
     "U+A74C","U+A74E","U+A750","U+A752","U+A754","U+A756","U+A758","U+A75A","U+A75C","U+A75E","U+A760","U+A762",
     "U+A764","U+A766","U+A768","U+A76A","U+A76C","U+A76E","U+A779","U+A77B","U+A77D","U+A77E","Ꞁ","Ꞃ",
     "Ꞅ","Ꞇ","Ꞌ","Ɥ","Ꞑ","Ꞓ","Ꞗ","Ꞙ","Ꞛ","Ꞝ","Ꞟ","Ꞡ",
     "Ꞣ","Ꞥ","Ꞧ","Ꞩ","Ɦ","Ɜ","Ɡ","Ɬ","Ɪ","Ʞ","Ʇ","Ʝ",
     "Ꭓ","Ꞵ","Ꞷ","Ꞹ","Ꞻ","Ꞽ","Ꞿ","Ꟁ","Ꟃ","Ꞔ","Ʂ","Ᶎ",
     "Ꟈ","Ꟊ","Ɤ","Ꟍ","꟎","Ꟑ","꟒","꟔","Ꟗ","Ꟙ","Ꟛ","Ƛ",
     "Ꟶ","U+FF21","U+FF22","U+FF23","U+FF24","U+FF25","U+FF26","U+FF27","U+FF28","U+FF29","U+FF2A","U+FF2B",
     "U+FF2C","U+FF2D","U+FF2E","U+FF2F","U+FF30","U+FF31","U+FF32","U+FF33","U+FF34","U+FF35","U+FF36","U+FF37",
     "U+FF38","U+FF39","U+FF3A" >>

LowerTo ==
  << "a","b","c","d","e","f","g","h","i","j","k","l",
     "m","n","o","p","q","r","s","t","u","v","w","x",
     "y","z","à","á","â","ã","ä","å","æ","ç","è","é",
     "ê","ë","ì","í","î","ï","ð","ñ","ò","ó","ô","õ",
     "ö","ø","ù","ú","û","ü","ý","þ","U+0101","U+0103","U+0105","U+0107",
     "U+0109","U+010B","U+010D","U+010F","U+0111","U+0113","U+0115","U+0117","U+0119","U+011B","U+011D","U+011F",
     "U+0121","U+0123","U+0125","U+0127","U+0129","U+012B","U+012D","U+012F","U+0133","U+0135","U+0137","U+013A",
     "U+013C","U+013E","U+0140","U+0142","U+0144","U+0146","U+0148","U+014B","U+014D","U+014F","U+0151","U+0153",
     "U+0155","U+0157","U+0159","U+015B","U+015D","U+015F","U+0161","U+0163","U+0165","U+0167","U+0169","U+016B",
     "U+016D","U+016F","U+0171","U+0173","U+0175","U+0177","ÿ","U+017A","U+017C","U+017E","U+0253","ƃ",
     "ƅ","U+0254","ƈ","U+0256","U+0257","ƌ","ǝ","U+0259","U+025B","ƒ","U+0260","U+0263",
     "U+0269","U+0268","ƙ","U+026F","U+0272","U+0275","ơ","ƣ","ƥ","ʀ","ƨ","ʃ",
     "ƭ","ʈ","ư","ʊ","ʋ","ƴ","ƶ","ʒ","ƹ","ƽ","ǆ","ǆ",
     "ǉ","ǉ","ǌ","ǌ","ǎ","ǐ","ǒ","ǔ","ǖ","ǘ","ǚ","ǜ",
     "ǟ","ǡ","ǣ","ǥ","ǧ","ǩ","ǫ","ǭ","ǯ","ǳ","ǳ","ǵ",
     "ƕ","ƿ","ǹ","ǻ","ǽ","ǿ","U+0201","U+0203","U+0205","U+0207","U+0209","U+020B",
     "U+020D","U+020F","U+0211","U+0213","U+0215","U+0217","U+0219","U+021B","U+021D","U+021F","ƞ","U+0223",
     "U+0225","U+0227","U+0229","U+022B","U+022D","U+022F","U+0231","U+0233","U+2C65","U+023C","ƚ","U+2C66",
     "U+0242","ƀ","ʉ","ʌ","U+0247","U+0249","U+024B","U+024D","U+024F","U+0371","U+0373","U+0377",
     "ϳ","ά","έ","ή","ί","ό","ύ","ώ","α","β","γ","δ",
     "ε","ζ","η","θ","ι","κ","λ","μ","ν","ξ","ο","π",
     "ρ","τ","υ","φ","χ","ψ","ω","ϊ","ϋ","ϗ","ϙ","ϛ",
     "ϝ","ϟ","ϡ","ϣ","ϥ","ϧ","ϩ","ϫ","ϭ","ϯ","θ","ϸ",
     "ϲ","ϻ","U+037B","U+037C","U+037D","U+0450","U+0451","U+0452","U+0453","U+0454","U+0455","U+0456",
     "U+0457","U+0458","U+0459","U+045A","U+045B","U+045C","U+045D","U+045E","U+045F","U+0430","U+0431","U+0432",
     "U+0433","U+0434","U+0435","U+0436","U+0437","U+0438","U+0439","U+043A","U+043B","U+043C","U+043D","U+043E",
     "U+043F","U+0440","U+0441","U+0442","U+0443","U+0444","U+0445","U+0446","U+0447","U+0448","U+0449","U+044A",
     "U+044B","U+044C","U+044D","U+044E","U+044F","U+0461","U+0463","U+0465","U+0467","U+0469","U+046B","U+046D",
     "U+046F","U+0471","U+0473","U+0475","U+0477","U+0479","U+047B","U+047D","U+047F","ҁ","ҋ","ҍ",
     "ҏ","ґ","ғ","ҕ","җ","ҙ","қ","ҝ","ҟ","ҡ","ң","ҥ",
     "ҧ","ҩ","ҫ","ҭ","ү","ұ","ҳ","ҵ","ҷ","ҹ","һ","ҽ",
     "ҿ","ӏ","ӂ","ӄ","ӆ","ӈ","ӊ","ӌ","ӎ","ӑ","ӓ","ӕ",
     "ӗ","ә","ӛ","ӝ","ӟ","ӡ","ӣ","ӥ","ӧ","ө","ӫ","ӭ",
     "ӯ","ӱ","ӳ","ӵ","ӷ","ӹ","ӻ","ӽ","ӿ","U+0501","U+0503","U+0505",
     "U+0507","U+0509","U+050B","U+050D","U+050F","U+0511","U+0513","U+0515","U+0517","U+0519","U+051B","U+051D",
     "U+051F","U+0521","U+0523","U+0525","U+0527","U+0529","U+052B","U+052D","U+052F","U+0561","U+0562","U+0563",
     "U+0564","U+0565","U+0566","U+0567","U+0568","U+0569","U+056A","U+056B","U+056C","U+056D","U+056E","U+056F",
     "U+0570","U+0571","U+0572","U+0573","U+0574","U+0575","U+0576","U+0577","U+0578","U+0579","U+057A","U+057B",
     "U+057C","U+057D","U+057E","U+057F","ր","ց","ւ","փ","ք","օ","ֆ","U+2D00",
     "U+2D01","U+2D02","U+2D03","U+2D04","U+2D05","U+2D06","U+2D07","U+2D08","U+2D09","U+2D0A","U+2D0B","U+2D0C",
     "U+2D0D","U+2D0E","U+2D0F","U+2D10","U+2D11","U+2D12","U+2D13","U+2D14","U+2D15","U+2D16","U+2D17","U+2D18",
     "U+2D19","U+2D1A","U+2D1B","U+2D1C","U+2D1D","U+2D1E","U+2D1F","U+2D20","U+2D21","U+2D22","U+2D23","U+2D24",
     "U+2D25","U+2D27","U+2D2D","U+AB70","U+AB71","U+AB72","U+AB73","U+AB74","U+AB75","U+AB76","U+AB77","U+AB78",
     "U+AB79","U+AB7A","U+AB7B","U+AB7C","U+AB7D","U+AB7E","U+AB7F","ꮀ","ꮁ","ꮂ","ꮃ","ꮄ",
     "ꮅ","ꮆ","ꮇ","ꮈ","ꮉ","ꮊ","ꮋ","ꮌ","ꮍ","ꮎ","ꮏ","ꮐ",
     "ꮑ","ꮒ","ꮓ","ꮔ","ꮕ","ꮖ","ꮗ","ꮘ","ꮙ","ꮚ","ꮛ","ꮜ",
     "ꮝ","ꮞ","ꮟ","ꮠ","ꮡ","ꮢ","ꮣ","ꮤ","ꮥ","ꮦ","ꮧ","ꮨ",
     "ꮩ","ꮪ","ꮫ","ꮬ","ꮭ","ꮮ","ꮯ","ꮰ","ꮱ","ꮲ","ꮳ","ꮴ",
     "ꮵ","ꮶ","ꮷ","ꮸ","ꮹ","ꮺ","ꮻ","ꮼ","ꮽ","ꮾ","ꮿ","ᏸ",
     "ᏹ","ᏺ","ᏻ","ᏼ","ᏽ","ᲊ","ა","ბ","გ","დ","ე","ვ",
     "ზ","თ","ი","კ","ლ","მ","ნ","ო","პ","ჟ","რ","ს",
     "ტ","უ","ფ","ქ","ღ","ყ","შ","ჩ","ც","ძ","წ","ჭ",
     "ხ","ჯ","ჰ","ჱ","ჲ","ჳ","ჴ","ჵ","ჶ","ჷ","ჸ","ჹ",
     "ჺ","ჽ","ჾ","ჿ","U+1E01","U+1E03","U+1E05","U+1E07","U+1E09","U+1E0B","U+1E0D","U+1E0F",
     "U+1E11","U+1E13","U+1E15","U+1E17","U+1E19","U+1E1B","U+1E1D","U+1E1F","U+1E21","U+1E23","U+1E25","U+1E27",
     "U+1E29","U+1E2B","U+1E2D","U+1E2F","U+1E31","U+1E33","U+1E35","U+1E37","U+1E39","U+1E3B","U+1E3D","U+1E3F",
     "U+1E41","U+1E43","U+1E45","U+1E47","U+1E49","U+1E4B","U+1E4D","U+1E4F","U+1E51","U+1E53","U+1E55","U+1E57",
     "U+1E59","U+1E5B","U+1E5D","U+1E5F","U+1E61","U+1E63","U+1E65","U+1E67","U+1E69","U+1E6B","U+1E6D","U+1E6F",
     "U+1E71","U+1E73","U+1E75","U+1E77","U+1E79","U+1E7B","U+1E7D","U+1E7F","ẁ","ẃ","ẅ","ẇ",
     "ẉ","ẋ","ẍ","ẏ","ẑ","ẓ","ẕ","ß","ạ","ả","ấ","ầ",
     "ẩ","ẫ","ậ","ắ","ằ","ẳ","ẵ","ặ","ẹ","ẻ","ẽ","ế",
     "ề","ể","ễ","ệ","ỉ","ị","ọ","ỏ","ố","ồ","ổ","ỗ",
     "ộ","ớ","ờ","ở","ỡ","ợ","ụ","ủ","ứ","ừ","ử","ữ",
     "ự","ỳ","ỵ","ỷ","ỹ","ỻ","ỽ","ỿ","U+1F00","U+1F01","U+1F02","U+1F03",
     "U+1F04","U+1F05","U+1F06","U+1F07","U+1F10","U+1F11","U+1F12","U+1F13","U+1F14","U+1F15","U+1F20","U+1F21",
     "U+1F22","U+1F23","U+1F24","U+1F25","U+1F26","U+1F27","U+1F30","U+1F31","U+1F32","U+1F33","U+1F34","U+1F35",
     "U+1F36","U+1F37","U+1F40","U+1F41","U+1F42","U+1F43","U+1F44","U+1F45","U+1F51","U+1F53","U+1F55","U+1F57",
     "U+1F60","U+1F61","U+1F62","U+1F63","U+1F64","U+1F65","U+1F66","U+1F67","ᾀ","ᾁ","ᾂ","ᾃ",
     "ᾄ","ᾅ","ᾆ","ᾇ","ᾐ","ᾑ","ᾒ","ᾓ","ᾔ","ᾕ","ᾖ","ᾗ",
     "ᾠ","ᾡ","ᾢ","ᾣ","ᾤ","ᾥ","ᾦ","ᾧ","ᾰ","ᾱ","U+1F70","U+1F71",
     "ᾳ","U+1F72","U+1F73","U+1F74","U+1F75","ῃ","ῐ","ῑ","U+1F76","U+1F77","ῠ","ῡ",
     "U+1F7A","U+1F7B","ῥ","U+1F78","U+1F79","U+1F7C","U+1F7D","ῳ","ω","k","å","U+214E",
     "U+2170","U+2171","U+2172","U+2173","U+2174","U+2175","U+2176","U+2177","U+2178","U+2179","U+217A","U+217B",
     "U+217C","U+217D","U+217E","U+217F","ↄ","ⓐ","ⓑ","ⓒ","ⓓ","ⓔ","ⓕ","ⓖ",
     "ⓗ","ⓘ","ⓙ","ⓚ","ⓛ","ⓜ","ⓝ","ⓞ","ⓟ","ⓠ","ⓡ","ⓢ",
     "ⓣ","ⓤ","ⓥ","ⓦ","ⓧ","ⓨ","ⓩ","U+2C30","U+2C31","U+2C32","U+2C33","U+2C34",
     "U+2C35","U+2C36","U+2C37","U+2C38","U+2C39","U+2C3A","U+2C3B","U+2C3C","U+2C3D","U+2C3E","U+2C3F","U+2C40",
     "U+2C41","U+2C42","U+2C43","U+2C44","U+2C45","U+2C46","U+2C47","U+2C48","U+2C49","U+2C4A","U+2C4B","U+2C4C",
     "U+2C4D","U+2C4E","U+2C4F","U+2C50","U+2C51","U+2C52","U+2C53","U+2C54","U+2C55","U+2C56","U+2C57","U+2C58",
     "U+2C59","U+2C5A","U+2C5B","U+2C5C","U+2C5D","U+2C5E","U+2C5F","U+2C61","U+026B","U+1D7D","U+027D","U+2C68",
     "U+2C6A","U+2C6C","U+0251","U+0271","U+0250","U+0252","U+2C73","U+2C76","U+023F","U+0240","ⲁ","ⲃ",
     "ⲅ","ⲇ","ⲉ","ⲋ","ⲍ","ⲏ","ⲑ","ⲓ","ⲕ","ⲗ","ⲙ","ⲛ",
     "ⲝ","ⲟ","ⲡ","ⲣ","ⲥ","ⲧ","ⲩ","ⲫ","ⲭ","ⲯ","ⲱ","ⲳ",
     "ⲵ","ⲷ","ⲹ","ⲻ","ⲽ","ⲿ","ⳁ","ⳃ","ⳅ","ⳇ","ⳉ","ⳋ",
     "ⳍ","ⳏ","ⳑ","ⳓ","ⳕ","ⳗ","ⳙ","ⳛ","ⳝ","ⳟ","ⳡ","ⳣ",
     "ⳬ","ⳮ","ⳳ","U+A641","U+A643","U+A645","U+A647","U+A649","U+A64B","U+A64D","U+A64F","U+A651",
     "U+A653","U+A655","U+A657","U+A659","U+A65B","U+A65D","U+A65F","U+A661","U+A663","U+A665","U+A667","U+A669",
     "U+A66B","U+A66D","ꚁ","ꚃ","ꚅ","ꚇ","ꚉ","ꚋ","ꚍ","ꚏ","ꚑ","ꚓ",
     "ꚕ","ꚗ","ꚙ","ꚛ","U+A723","U+A725","U+A727","U+A729","U+A72B","U+A72D","U+A72F","U+A733",
     "U+A735","U+A737","U+A739","U+A73B","U+A73D","U+A73F","U+A741","U+A743","U+A745","U+A747","U+A749","U+A74B",
     "U+A74D","U+A74F","U+A751","U+A753","U+A755","U+A757","U+A759","U+A75B","U+A75D","U+A75F","U+A761","U+A763",
     "U+A765","U+A767","U+A769","U+A76B","U+A76D","U+A76F","U+A77A","U+A77C","U+1D79","U+A77F","ꞁ","ꞃ",
     "ꞅ","ꞇ","ꞌ","U+0265","ꞑ","ꞓ","ꞗ","ꞙ","ꞛ","ꞝ","ꞟ","ꞡ",
     "ꞣ","ꞥ","ꞧ","ꞩ","U+0266","U+025C","U+0261","U+026C","U+026A","ʞ","ʇ","ʝ",
     "U+AB53","ꞵ","ꞷ","ꞹ","ꞻ","ꞽ","ꞿ","ꟁ","ꟃ","ꞔ","ʂ","ᶎ",
     "ꟈ","ꟊ","U+0264","ꟍ","꟏","ꟑ","ꟓ","ꟕ","ꟗ","ꟙ","ꟛ","ƛ",
     "ꟶ","U+FF41","U+FF42","U+FF43","U+FF44","U+FF45","U+FF46","U+FF47","U+FF48","U+FF49","U+FF4A","U+FF4B",
     "U+FF4C","U+FF4D","U+FF4E","U+FF4F","U+FF50","U+FF51","U+FF52","U+FF53","U+FF54","U+FF55","U+FF56","U+FF57",
     "U+FF58","U+FF59","U+FF5A" >>

\* the one character with a lower case of several characters: the capital
\* I with a dot above, whose lower case is i and the combining dot above
LowerSpecialFrom ==
  << "U+0130" >>

LowerSpecialTo ==
  << <<"i","U+0307">> >>

\* the Case_Ignorable characters (accents, apostrophes, modifier letters)
CaseIgnorable ==
  { "'",".",":","^","U+0060","¨","­","¯","´","·","¸","ʰ",
     "ʱ","ʲ","ʳ","ʴ","ʵ","ʶ","ʷ","ʸ","ʹ","ʺ","ʻ","ʼ",
     "ʽ","ʾ","ʿ","ˀ","ˁ","˂","˃","˄","˅","ˆ","ˇ","ˈ",
     "ˉ","ˊ","ˋ","ˌ","ˍ","ˎ","ˏ","ː","ˑ","˒","˓","˔",
     "˕","˖","˗","˘","˙","˚","˛","˜","˝","˞","˟","ˠ",
     "ˡ","ˢ","ˣ","ˤ","˥","˦","˧","˨","˩","˪","˫","ˬ",
     "˭","ˮ","˯","˰","˱","˲","˳","˴","˵","˶","˷","˸",
     "˹","˺","˻","˼","˽","˾","˿","U+0300","U+0301","U+0302","U+0303","U+0304",
     "U+0305","U+0306","U+0307","U+0308","U+0309","U+030A","U+030B","U+030C","U+030D","U+030E","U+030F","U+0310",
     "U+0311","U+0312","U+0313","U+0314","U+0315","U+0316","U+0317","U+0318","U+0319","U+031A","U+031B","U+031C",
     "U+031D","U+031E","U+031F","U+0320","U+0321","U+0322","U+0323","U+0324","U+0325","U+0326","U+0327","U+0328",
     "U+0329","U+032A","U+032B","U+032C","U+032D","U+032E","U+032F","U+0330","U+0331","U+0332","U+0333","U+0334",
     "U+0335","U+0336","U+0337","U+0338","U+0339","U+033A","U+033B","U+033C","U+033D","U+033E","U+033F","U+0340",
     "U+0341","U+0342","U+0343","U+0344","U+0345","U+0346","U+0347","U+0348","U+0349","U+034A","U+034B","U+034C",
     "U+034D","U+034E","U+034F","U+0350","U+0351","U+0352","U+0353","U+0354","U+0355","U+0356","U+0357","U+0358",
     "U+0359","U+035A","U+035B","U+035C","U+035D","U+035E","U+035F","U+0360","U+0361","U+0362","U+0363","U+0364",
     "U+0365","U+0366","U+0367","U+0368","U+0369","U+036A","U+036B","U+036C","U+036D","U+036E","U+036F","U+0374",
     "U+0375","U+037A","΄","΅","·","҃","҄","҅","҆","҇","҈","҉",
     "U+0559","U+055F","֑","֒","֓","֔","֕","֖","֗","֘","֙","֚",
     "֛","֜","֝","֞","֟","֠","֡","֢","֣","֤","֥","֦",
     "֧","֨","֩","֪","֫","֬","֭","֮","֯","ְ","ֱ","ֲ",
     "ֳ","ִ","ֵ","ֶ","ַ","ָ","ֹ","ֺ","ֻ","ּ","ֽ","ֿ",
     "ׁ","ׂ","ׄ","ׅ","ׇ","״","U+0600","U+0601","U+0602","U+0603","U+0604","U+0605",
     "U+0610","U+0611","U+0612","U+0613","U+0614","U+0615","U+0616","U+0617","U+0618","U+0619","U+061A","U+061C",
     "U+0640","U+064B","U+064C","U+064D","U+064E","U+064F","U+0650","U+0651","U+0652","U+0653","U+0654","U+0655",
     "U+0656","U+0657","U+0658","U+0659","U+065A","U+065B","U+065C","U+065D","U+065E","U+065F","U+0670","ۖ",
     "ۗ","ۘ","ۙ","ۚ","ۛ","ۜ","۝","۟","۠","ۡ","ۢ","ۣ",
     "ۤ","ۥ","ۦ","ۧ","ۨ","۪","۫","۬","ۭ","U+070F","U+0711","U+0730",
     "U+0731","U+0732","U+0733","U+0734","U+0735","U+0736","U+0737","U+0738","U+0739","U+073A","U+073B","U+073C",
     "U+073D","U+073E","U+073F","U+0740","U+0741","U+0742","U+0743","U+0744","U+0745","U+0746","U+0747","U+0748",
     "U+0749","U+074A","ަ","ާ","ި","ީ","ު","ޫ","ެ","ޭ","ޮ","ޯ",
     "ް","߫","߬","߭","߮","߯","߰","߱","߲","߳","ߴ","ߵ",
     "ߺ","߽","U+0816","U+0817","U+0818","U+0819","U+081A","U+081B","U+081C","U+081D","U+081E","U+081F",
     "U+0820","U+0821","U+0822","U+0823","U+0824","U+0825","U+0826","U+0827","U+0828","U+0829","U+082A","U+082B",
     "U+082C","U+082D","U+0859","U+085A","U+085B","࢈","࢐","࢑","ࢗ","࢘","࢙","࢚",
     "࢛","࢜","࢝","࢞","࢟","ࣉ","࣊","࣋","࣌","࣍","࣎","࣏",
     "࣐","࣑","࣒","࣓","ࣔ","ࣕ","ࣖ","ࣗ","ࣘ","ࣙ","ࣚ","ࣛ",
     "ࣜ","ࣝ","ࣞ","ࣟ","࣠","࣡","࣢","ࣣ","ࣤ","ࣥ","ࣦ","ࣧ",
     "ࣨ","ࣩ","࣪","࣫","࣬","࣭","࣮","࣯","ࣰ","ࣱ","ࣲ","ࣳ",
     "ࣴ","ࣵ","ࣶ","ࣷ","ࣸ","ࣹ","ࣺ","ࣻ","ࣼ","ࣽ","ࣾ","ࣿ",
     "U+0900","U+0901","U+0902","U+093A","U+093C","U+0941","U+0942","U+0943","U+0944","U+0945","U+0946","U+0947",
     "U+0948","U+094D","U+0951","U+0952","U+0953","U+0954","U+0955","U+0956","U+0957","U+0962","U+0963","U+0971",
     "ঁ","়","ু","ূ","ৃ","ৄ","্","ৢ","ৣ","৾","U+0A01","U+0A02",
     "U+0A3C","U+0A41","U+0A42","U+0A47","U+0A48","U+0A4B","U+0A4C","U+0A4D","U+0A51","U+0A70","U+0A71","U+0A75",
     "ઁ","ં","઼","ુ","ૂ","ૃ","ૄ","ૅ","ે","ૈ","્","ૢ",
     "ૣ","ૺ","ૻ","ૼ","૽","૾","૿","U+0B01","U+0B3C","U+0B3F","U+0B41","U+0B42",
     "U+0B43","U+0B44","U+0B4D","U+0B55","U+0B56","U+0B62","U+0B63","ஂ","ீ","்","U+0C00","U+0C04",
     "U+0C3C","U+0C3E","U+0C3F","U+0C40","U+0C46","U+0C47","U+0C48","U+0C4A","U+0C4B","U+0C4C","U+0C4D","U+0C55",
     "U+0C56","U+0C62","U+0C63","ಁ","಼","ಿ","ೆ","ೌ","್","ೢ","ೣ","U+0D00",
     "U+0D01","U+0D3B","U+0D3C","U+0D41","U+0D42","U+0D43","U+0D44","U+0D4D","U+0D62","U+0D63","ඁ","්",
     "ි","ී","ු","ූ","U+0E31","U+0E34","U+0E35","U+0E36","U+0E37","U+0E38","U+0E39","U+0E3A",
     "U+0E46","U+0E47","U+0E48","U+0E49","U+0E4A","U+0E4B","U+0E4C","U+0E4D","U+0E4E","ັ","ິ","ີ",
     "ຶ","ື","ຸ","ູ","຺","ົ","ຼ","ໆ","່","້","໊","໋",
     "໌","ໍ","໎","U+0F18","U+0F19","U+0F35","U+0F37","U+0F39","U+0F71","U+0F72","U+0F73","U+0F74",
     "U+0F75","U+0F76","U+0F77","U+0F78","U+0F79","U+0F7A","U+0F7B","U+0F7C","U+0F7D","U+0F7E","ྀ","ཱྀ",
     "ྂ","ྃ","྄","྆","྇","ྍ","ྎ","ྏ","ྐ","ྑ","ྒ","ྒྷ",
     "ྔ","ྕ","ྖ","ྗ","ྙ","ྚ","ྛ","ྜ","ྜྷ","ྞ","ྟ","ྠ",
     "ྡ","ྡྷ","ྣ","ྤ","ྥ","ྦ","ྦྷ","ྨ","ྩ","ྪ","ྫ","ྫྷ",
     "ྭ","ྮ","ྯ","ྰ","ྱ","ྲ","ླ","ྴ","ྵ","ྶ","ྷ","ྸ",
     "ྐྵ","ྺ","ྻ","ྼ","࿆","U+102D","U+102E","U+102F","U+1030","U+1032","U+1033","U+1034",
     "U+1035","U+1036","U+1037","U+1039","U+103A","U+103D","U+103E","U+1058","U+1059","U+105E","U+105F","U+1060",
     "U+1071","U+1072","U+1073","U+1074","ႂ","ႅ","ႆ","ႍ","ႝ","ჼ","U+135D","U+135E",
     "U+135F","U+1712","U+1713","U+1714","U+1732","U+1733","U+1752","U+1753","U+1772","U+1773","឴","឵",
     "ិ","ី","ឹ","ឺ","ុ","ូ","ួ","ំ","៉","៊","់","៌",
     "៍","៎","៏","័","៑","្","៓","ៗ","៝","U+180B","U+180C","U+180D",
     "U+180E","U+180F","U+1843","ᢅ","ᢆ","ᢩ","U+1920","U+1921","U+1922","U+1927","U+1928","U+1932",
     "U+1939","U+193A","U+193B","U+1A17","U+1A18","U+1A1B","U+1A56","U+1A58","U+1A59","U+1A5A","U+1A5B","U+1A5C",
     "U+1A5D","U+1A5E","U+1A60","U+1A62","U+1A65","U+1A66","U+1A67","U+1A68","U+1A69","U+1A6A","U+1A6B","U+1A6C",
     "U+1A73","U+1A74","U+1A75","U+1A76","U+1A77","U+1A78","U+1A79","U+1A7A","U+1A7B","U+1A7C","U+1A7F","ᪧ",
     "᪰","᪱","᪲","᪳","᪴","᪵","᪶","᪷","᪸","᪹","᪺","᪻",
     "᪼","᪽","᪾","ᪿ","ᫀ","᫁","᫂","᫃","᫄","᫅","᫆","᫇",
     "᫈","᫉","᫊","᫋","ᫌ","ᫍ","ᫎ","᫏","᫐","᫑","᫒","᫓",
     "᫔","᫕","᫖","᫗","᫘","᫙","᫚","᫛","᫜","᫝","᫠","᫡",
     "᫢","᫣","᫤","᫥","᫦","᫧","᫨","᫩","᫪","᫫","U+1B00","U+1B01",
     "U+1B02","U+1B03","U+1B34","U+1B36","U+1B37","U+1B38","U+1B39","U+1B3A","U+1B3C","U+1B42","U+1B6B","U+1B6C",
     "U+1B6D","U+1B6E","U+1B6F","U+1B70","U+1B71","U+1B72","U+1B73","ᮀ","ᮁ","ᮢ","ᮣ","ᮤ",
     "ᮥ","ᮨ","ᮩ","᮫","ᮬ","ᮭ","᯦","ᯨ","ᯩ","ᯭ","ᯯ","ᯰ",
     "ᯱ","U+1C2C","U+1C2D","U+1C2E","U+1C2F","U+1C30","U+1C31","U+1C32","U+1C33","U+1C36","U+1C37","U+1C78",
     "U+1C79","U+1C7A","U+1C7B","U+1C7C","U+1C7D","᳐","᳑","᳒","᳔","᳕","᳖","᳗",
     "᳘","᳙","᳚","᳛","᳜","᳝","᳞","᳟","᳠","᳢","᳣","᳤",
     "᳥","᳦","᳧","᳨","᳭","᳴","᳸","᳹","U+1D2C","U+1D2D","U+1D2E","U+1D2F",
     "U+1D30","U+1D31","U+1D32","U+1D33","U+1D34","U+1D35","U+1D36","U+1D37","U+1D38","U+1D39","U+1D3A","U+1D3B",
     "U+1D3C","U+1D3D","U+1D3E","U+1D3F","U+1D40","U+1D41","U+1D42","U+1D43","U+1D44","U+1D45","U+1D46","U+1D47",
     "U+1D48","U+1D49","U+1D4A","U+1D4B","U+1D4C","U+1D4D","U+1D4E","U+1D4F","U+1D50","U+1D51","U+1D52","U+1D53",
     "U+1D54","U+1D55","U+1D56","U+1D57","U+1D58","U+1D59","U+1D5A","U+1D5B","U+1D5C","U+1D5D","U+1D5E","U+1D5F",
     "U+1D60","U+1D61","U+1D62","U+1D63","U+1D64","U+1D65","U+1D66","U+1D67","U+1D68","U+1D69","U+1D6A","U+1D78",
     "ᶛ","ᶜ","ᶝ","ᶞ","ᶟ","ᶠ","ᶡ","ᶢ","ᶣ","ᶤ","ᶥ","ᶦ",
     "ᶧ","ᶨ","ᶩ","ᶪ","ᶫ","ᶬ","ᶭ","ᶮ","ᶯ","ᶰ","ᶱ","ᶲ",
     "ᶳ","ᶴ","ᶵ","ᶶ","ᶷ","ᶸ","ᶹ","ᶺ","ᶻ","ᶼ","ᶽ","ᶾ",
     "ᶿ","᷀","᷁","᷂","᷃","᷄","᷅","᷆","᷇","᷈","᷉","᷊",
     "᷋","᷌","᷍","᷎","᷏","᷐","᷑","᷒","ᷓ","ᷔ","ᷕ","ᷖ",
     "ᷗ","ᷘ","ᷙ","ᷚ","ᷛ","ᷜ","ᷝ","ᷞ","ᷟ","ᷠ","ᷡ","ᷢ",
     "ᷣ","ᷤ","ᷥ","ᷦ","ᷧ","ᷨ","ᷩ","ᷪ","ᷫ","ᷬ","ᷭ","ᷮ",
     "ᷯ","ᷰ","ᷱ","ᷲ","ᷳ","ᷴ","᷵","᷶","᷷","᷸","᷹","᷺",
     "᷻","᷼","᷽","᷾","᷿","᾽","᾿","῀","῁","῍","῎","῏",
     "῝","῞","῟","῭","΅","`","´","῾","U+200B","U+200C","U+200D","U+200E",
     "U+200F","U+2018","U+2019","U+2024","U+2027","U+202A","U+202B","U+202C","U+202D","U+202E","U+2060","U+2061",
     "U+2062","U+2063","U+2064","U+2066","U+2067","U+2068","U+2069","U+206A","U+206B","U+206C","U+206D","U+206E",
     "U+206F","U+2071","U+207F","ₐ","ₑ","ₒ","ₓ","ₔ","ₕ","ₖ","ₗ","ₘ",
     "ₙ","ₚ","ₛ","ₜ","⃐","⃑","⃒","⃓","⃔","⃕","⃖","⃗",
     "⃘","⃙","⃚","⃛","⃜","⃝","⃞","⃟","⃠","⃡","⃢","⃣",
     "⃤","⃥","⃦","⃧","⃨","⃩","⃪","⃫","⃬","⃭","⃮","⃯",
     "⃰","U+2C7C","U+2C7D","⳯","⳰","⳱","U+2D6F","U+2D7F","ⷠ","ⷡ","ⷢ","ⷣ",
     "ⷤ","ⷥ","ⷦ","ⷧ","ⷨ","ⷩ","ⷪ","ⷫ","ⷬ","ⷭ","ⷮ","ⷯ",
     "ⷰ","ⷱ","ⷲ","ⷳ","ⷴ","ⷵ","ⷶ","ⷷ","ⷸ","ⷹ","ⷺ","ⷻ",
     "ⷼ","ⷽ","ⷾ","ⷿ","U+2E2F","U+3005","U+302A","U+302B","U+302C","U+302D","U+3031","U+3032",
     "U+3033","U+3034","U+3035","U+303B","゙","゚","゛","゜","ゝ","ゞ","ー","ヽ",
     "ヾ","U+A015","ꓸ","ꓹ","ꓺ","ꓻ","ꓼ","ꓽ","U+A60C","U+A66F","U+A670","U+A671",
     "U+A672","U+A674","U+A675","U+A676","U+A677","U+A678","U+A679","U+A67A","U+A67B","U+A67C","U+A67D","U+A67F",
     "ꚜ","ꚝ","ꚞ","ꚟ","꛰","꛱","U+A700","U+A701","U+A702","U+A703","U+A704","U+A705",
     "U+A706","U+A707","U+A708","U+A709","U+A70A","U+A70B","U+A70C","U+A70D","U+A70E","U+A70F","U+A710","U+A711",
     "U+A712","U+A713","U+A714","U+A715","U+A716","U+A717","U+A718","U+A719","U+A71A","U+A71B","U+A71C","U+A71D",
     "U+A71E","U+A71F","U+A720","U+A721","U+A770","ꞈ","꞉","꞊","꟱","ꟲ","ꟳ","ꟴ",
     "ꟸ","ꟹ","U+A802","U+A806","U+A80B","U+A825","U+A826","U+A82C","꣄","ꣅ","꣠","꣡",
     "꣢","꣣","꣤","꣥","꣦","꣧","꣨","꣩","꣪","꣫","꣬","꣭",
     "꣮","꣯","꣰","꣱","ꣿ","U+A926","U+A927","U+A928","U+A929","U+A92A","U+A92B","U+A92C",
     "U+A92D","U+A947","U+A948","U+A949","U+A94A","U+A94B","U+A94C","U+A94D","U+A94E","U+A94F","U+A950","U+A951",
     "ꦀ","ꦁ","ꦂ","꦳","ꦶ","ꦷ","ꦸ","ꦹ","ꦼ","ꦽ","ꧏ","ꧥ",
     "ꧦ","U+AA29","U+AA2A","U+AA2B","U+AA2C","U+AA2D","U+AA2E","U+AA31","U+AA32","U+AA35","U+AA36","U+AA43",
     "U+AA4C","U+AA70","U+AA7C","ꪰ","ꪲ","ꪳ","ꪴ","ꪷ","ꪸ","ꪾ","꪿","꫁",
     "ꫝ","ꫬ","ꫭ","ꫳ","ꫴ","꫶","U+AB5B","U+AB5C","U+AB5D","U+AB5E","U+AB5F","U+AB69",
     "U+AB6A","U+AB6B","ꯥ","ꯨ","꯭","U+FB1E","﮲","﮳","﮴","﮵","﮶","﮷",
     "﮸","﮹","﮺","﮻","﮼","﮽","﮾","﮿","﯀","﯁","﯂","U+FE00",
     "U+FE01","U+FE02","U+FE03","U+FE04","U+FE05","U+FE06","U+FE07","U+FE08","U+FE09","U+FE0A","U+FE0B","U+FE0C",
     "U+FE0D","U+FE0E","U+FE0F","U+FE13","U+FE20","U+FE21","U+FE22","U+FE23","U+FE24","U+FE25","U+FE26","U+FE27",
     "U+FE28","U+FE29","U+FE2A","U+FE2B","U+FE2C","U+FE2D","U+FE2E","U+FE2F","U+FE52","U+FE55","﻿","U+FF07",
     "U+FF0E","U+FF1A","U+FF3E","U+FF40","U+FF70","ﾞ","ﾟ","￣","￹","￺","￻" }

\* the Cased characters (letters with a case) that are not Case_Ignorable
Cased ==
  { "A","B","C","D","E","F","G","H","I","J","K","L",
     "M","N","O","P","Q","R","S","T","U","V","W","X",
     "Y","Z","a","b","c","d","e","f","g","h","i","j",
     "k","l","m","n","o","p","q","r","s","t","u","v",
     "w","x","y","z","ª","µ","º","À","Á","Â","Ã","Ä",
     "Å","Æ","Ç","È","É","Ê","Ë","Ì","Í","Î","Ï","Ð",
     "Ñ","Ò","Ó","Ô","Õ","Ö","Ø","Ù","Ú","Û","Ü","Ý",
     "Þ","ß","à","á","â","ã","ä","å","æ","ç","è","é",
     "ê","ë","ì","í","î","ï","ð","ñ","ò","ó","ô","õ",
     "ö","ø","ù","ú","û","ü","ý","þ","ÿ","U+0100","U+0101","U+0102",
     "U+0103","U+0104","U+0105","U+0106","U+0107","U+0108","U+0109","U+010A","U+010B","U+010C","U+010D","U+010E",
     "U+010F","U+0110","U+0111","U+0112","U+0113","U+0114","U+0115","U+0116","U+0117","U+0118","U+0119","U+011A",
     "U+011B","U+011C","U+011D","U+011E","U+011F","U+0120","U+0121","U+0122","U+0123","U+0124","U+0125","U+0126",
     "U+0127","U+0128","U+0129","U+012A","U+012B","U+012C","U+012D","U+012E","U+012F","U+0130","U+0131","U+0132",
     "U+0133","U+0134","U+0135","U+0136","U+0137","U+0138","U+0139","U+013A","U+013B","U+013C","U+013D","U+013E",
     "U+013F","U+0140","U+0141","U+0142","U+0143","U+0144","U+0145","U+0146","U+0147","U+0148","U+0149","U+014A",
     "U+014B","U+014C","U+014D","U+014E","U+014F","U+0150","U+0151","U+0152","U+0153","U+0154","U+0155","U+0156",
     "U+0157","U+0158","U+0159","U+015A","U+015B","U+015C","U+015D","U+015E","U+015F","U+0160","U+0161","U+0162",
     "U+0163","U+0164","U+0165","U+0166","U+0167","U+0168","U+0169","U+016A","U+016B","U+016C","U+016D","U+016E",
     "U+016F","U+0170","U+0171","U+0172","U+0173","U+0174","U+0175","U+0176","U+0177","U+0178","U+0179","U+017A",
     "U+017B","U+017C","U+017D","U+017E","U+017F","ƀ","Ɓ","Ƃ","ƃ","Ƅ","ƅ","Ɔ",
     "Ƈ","ƈ","Ɖ","Ɗ","Ƌ","ƌ","ƍ","Ǝ","Ə","Ɛ","Ƒ","ƒ",
     "Ɠ","Ɣ","ƕ","Ɩ","Ɨ","Ƙ","ƙ","ƚ","ƛ","Ɯ","Ɲ","ƞ",
     "Ɵ","Ơ","ơ","Ƣ","ƣ","Ƥ","ƥ","Ʀ","Ƨ","ƨ","Ʃ","ƪ",
     "ƫ","Ƭ","ƭ","Ʈ","Ư","ư","Ʊ","Ʋ","Ƴ","ƴ","Ƶ","ƶ",
     "Ʒ","Ƹ","ƹ","ƺ","Ƽ","ƽ","ƾ","ƿ","Ǆ","ǅ","ǆ","Ǉ",
     "ǈ","ǉ","Ǌ","ǋ","ǌ","Ǎ","ǎ","Ǐ","ǐ","Ǒ","ǒ","Ǔ",
     "ǔ","Ǖ","ǖ","Ǘ","ǘ","Ǚ","ǚ","Ǜ","ǜ","ǝ","Ǟ","ǟ",
     "Ǡ","ǡ","Ǣ","ǣ","Ǥ","ǥ","Ǧ","ǧ","Ǩ","ǩ","Ǫ","ǫ",
     "Ǭ","ǭ","Ǯ","ǯ","ǰ","Ǳ","ǲ","ǳ","Ǵ","ǵ","Ƕ","Ƿ",
     "Ǹ","ǹ","Ǻ","ǻ","Ǽ","ǽ","Ǿ","ǿ","U+0200","U+0201","U+0202","U+0203",
     "U+0204","U+0205","U+0206","U+0207","U+0208","U+0209","U+020A","U+020B","U+020C","U+020D","U+020E","U+020F",
     "U+0210","U+0211","U+0212","U+0213","U+0214","U+0215","U+0216","U+0217","U+0218","U+0219","U+021A","U+021B",
     "U+021C","U+021D","U+021E","U+021F","U+0220","U+0221","U+0222","U+0223","U+0224","U+0225","U+0226","U+0227",
     "U+0228","U+0229","U+022A","U+022B","U+022C","U+022D","U+022E","U+022F","U+0230","U+0231","U+0232","U+0233",
     "U+0234","U+0235","U+0236","U+0237","U+0238","U+0239","U+023A","U+023B","U+023C","U+023D","U+023E","U+023F",
     "U+0240","U+0241","U+0242","U+0243","U+0244","U+0245","U+0246","U+0247","U+0248","U+0249","U+024A","U+024B",
     "U+024C","U+024D","U+024E","U+024F","U+0250","U+0251","U+0252","U+0253","U+0254","U+0255","U+0256","U+0257",
     "U+0258","U+0259","U+025A","U+025B","U+025C","U+025D","U+025E","U+025F","U+0260","U+0261","U+0262","U+0263",
     "U+0264","U+0265","U+0266","U+0267","U+0268","U+0269","U+026A","U+026B","U+026C","U+026D","U+026E","U+026F",
     "U+0270","U+0271","U+0272","U+0273","U+0274","U+0275","U+0276","U+0277","U+0278","U+0279","U+027A","U+027B",
     "U+027C","U+027D","U+027E","U+027F","ʀ","ʁ","ʂ","ʃ","ʄ","ʅ","ʆ","ʇ",
     "ʈ","ʉ","ʊ","ʋ","ʌ","ʍ","ʎ","ʏ","ʐ","ʑ","ʒ","ʓ",
     "ʖ","ʗ","ʘ","ʙ","ʚ","ʛ","ʜ","ʝ","ʞ","ʟ","ʠ","ʡ",
     "ʢ","ʣ","ʤ","ʥ","ʦ","ʧ","ʨ","ʩ","ʪ","ʫ","ʬ","ʭ",
     "ʮ","ʯ","U+0370","U+0371","U+0372","U+0373","U+0376","U+0377","U+037B","U+037C","U+037D","U+037F",
     "Ά","Έ","Ή","Ί","Ό","Ύ","Ώ","ΐ","Α","Β","Γ","Δ",
     "Ε","Ζ","Η","Θ","Ι","Κ","Λ","Μ","Ν","Ξ","Ο","Π",
     "Ρ","Σ","Τ","Υ","Φ","Χ","Ψ","Ω","Ϊ","Ϋ","ά","έ",
     "ή","ί","ΰ","α","β","γ","δ","ε","ζ","η","θ","ι",
     "κ","λ","μ","ν","ξ","ο","π","ρ","ς","σ","τ","υ",
     "φ","χ","ψ","ω","ϊ","ϋ","ό","ύ","ώ","Ϗ","ϐ","ϑ",
     "ϒ","ϓ","ϔ","ϕ","ϖ","ϗ","Ϙ","ϙ","Ϛ","ϛ","Ϝ","ϝ",
     "Ϟ","ϟ","Ϡ","ϡ","Ϣ","ϣ","Ϥ","ϥ","Ϧ","ϧ","Ϩ","ϩ",
     "Ϫ","ϫ","Ϭ","ϭ","Ϯ","ϯ","ϰ","ϱ","ϲ","ϳ","ϴ","ϵ",
     "Ϸ","ϸ","Ϲ","Ϻ","ϻ","ϼ","Ͻ","Ͼ","Ͽ","U+0400","U+0401","U+0402",
     "U+0403","U+0404","U+0405","U+0406","U+0407","U+0408","U+0409","U+040A","U+040B","U+040C","U+040D","U+040E",
     "U+040F","U+0410","U+0411","U+0412","U+0413","U+0414","U+0415","U+0416","U+0417","U+0418","U+0419","U+041A",
     "U+041B","U+041C","U+041D","U+041E","U+041F","U+0420","U+0421","U+0422","U+0423","U+0424","U+0425","U+0426",
     "U+0427","U+0428","U+0429","U+042A","U+042B","U+042C","U+042D","U+042E","U+042F","U+0430","U+0431","U+0432",
     "U+0433","U+0434","U+0435","U+0436","U+0437","U+0438","U+0439","U+043A","U+043B","U+043C","U+043D","U+043E",
     "U+043F","U+0440","U+0441","U+0442","U+0443","U+0444","U+0445","U+0446","U+0447","U+0448","U+0449","U+044A",
     "U+044B","U+044C","U+044D","U+044E","U+044F","U+0450","U+0451","U+0452","U+0453","U+0454","U+0455","U+0456",
     "U+0457","U+0458","U+0459","U+045A","U+045B","U+045C","U+045D","U+045E","U+045F","U+0460","U+0461","U+0462",
     "U+0463","U+0464","U+0465","U+0466","U+0467","U+0468","U+0469","U+046A","U+046B","U+046C","U+046D","U+046E",
     "U+046F","U+0470","U+0471","U+0472","U+0473","U+0474","U+0475","U+0476","U+0477","U+0478","U+0479","U+047A",
     "U+047B","U+047C","U+047D","U+047E","U+047F","Ҁ","ҁ","Ҋ","ҋ","Ҍ","ҍ","Ҏ",
     "ҏ","Ґ","ґ","Ғ","ғ","Ҕ","ҕ","Җ","җ","Ҙ","ҙ","Қ",
     "қ","Ҝ","ҝ","Ҟ","ҟ","Ҡ","ҡ","Ң","ң","Ҥ","ҥ","Ҧ",
     "ҧ","Ҩ","ҩ","Ҫ","ҫ","Ҭ","ҭ","Ү","ү","Ұ","ұ","Ҳ",
     "ҳ","Ҵ","ҵ","Ҷ","ҷ","Ҹ","ҹ","Һ","һ","Ҽ","ҽ","Ҿ",
     "ҿ","Ӏ","Ӂ","ӂ","Ӄ","ӄ","Ӆ","ӆ","Ӈ","ӈ","Ӊ","ӊ",
     "Ӌ","ӌ","Ӎ","ӎ","ӏ","Ӑ","ӑ","Ӓ","ӓ","Ӕ","ӕ","Ӗ",
     "ӗ","Ә","ә","Ӛ","ӛ","Ӝ","ӝ","Ӟ","ӟ","Ӡ","ӡ","Ӣ",
     "ӣ","Ӥ","ӥ","Ӧ","ӧ","Ө","ө","Ӫ","ӫ","Ӭ","ӭ","Ӯ",
     "ӯ","Ӱ","ӱ","Ӳ","ӳ","Ӵ","ӵ","Ӷ","ӷ","Ӹ","ӹ","Ӻ",
     "ӻ","Ӽ","ӽ","Ӿ","ӿ","U+0500","U+0501","U+0502","U+0503","U+0504","U+0505","U+0506",
     "U+0507","U+0508","U+0509","U+050A","U+050B","U+050C","U+050D","U+050E","U+050F","U+0510","U+0511","U+0512",
     "U+0513","U+0514","U+0515","U+0516","U+0517","U+0518","U+0519","U+051A","U+051B","U+051C","U+051D","U+051E",
     "U+051F","U+0520","U+0521","U+0522","U+0523","U+0524","U+0525","U+0526","U+0527","U+0528","U+0529","U+052A",
     "U+052B","U+052C","U+052D","U+052E","U+052F","U+0531","U+0532","U+0533","U+0534","U+0535","U+0536","U+0537",
     "U+0538","U+0539","U+053A","U+053B","U+053C","U+053D","U+053E","U+053F","U+0540","U+0541","U+0542","U+0543",
     "U+0544","U+0545","U+0546","U+0547","U+0548","U+0549","U+054A","U+054B","U+054C","U+054D","U+054E","U+054F",
     "U+0550","U+0551","U+0552","U+0553","U+0554","U+0555","U+0556","U+0560","U+0561","U+0562","U+0563","U+0564",
     "U+0565","U+0566","U+0567","U+0568","U+0569","U+056A","U+056B","U+056C","U+056D","U+056E","U+056F","U+0570",
     "U+0571","U+0572","U+0573","U+0574","U+0575","U+0576","U+0577","U+0578","U+0579","U+057A","U+057B","U+057C",
     "U+057D","U+057E","U+057F","ր","ց","ւ","փ","ք","օ","ֆ","և","ֈ",
     "Ⴀ","Ⴁ","Ⴂ","Ⴃ","Ⴄ","Ⴅ","Ⴆ","Ⴇ","Ⴈ","Ⴉ","Ⴊ","Ⴋ",
     "Ⴌ","Ⴍ","Ⴎ","Ⴏ","Ⴐ","Ⴑ","Ⴒ","Ⴓ","Ⴔ","Ⴕ","Ⴖ","Ⴗ",
     "Ⴘ","Ⴙ","Ⴚ","Ⴛ","Ⴜ","Ⴝ","Ⴞ","Ⴟ","Ⴠ","Ⴡ","Ⴢ","Ⴣ",
     "Ⴤ","Ⴥ","Ⴧ","Ⴭ","ა","ბ","გ","დ","ე","ვ","ზ","თ",
     "ი","კ","ლ","მ","ნ","ო","პ","ჟ","რ","ს","ტ","უ",
     "ფ","ქ","ღ","ყ","შ","ჩ","ც","ძ","წ","ჭ","ხ","ჯ",
     "ჰ","ჱ","ჲ","ჳ","ჴ","ჵ","ჶ","ჷ","ჸ","ჹ","ჺ","ჽ",
     "ჾ","ჿ","Ꭰ","Ꭱ","Ꭲ","Ꭳ","Ꭴ","Ꭵ","Ꭶ","Ꭷ","Ꭸ","Ꭹ",
     "Ꭺ","Ꭻ","Ꭼ","Ꭽ","Ꭾ","Ꭿ","Ꮀ","Ꮁ","Ꮂ","Ꮃ","Ꮄ","Ꮅ",
     "Ꮆ","Ꮇ","Ꮈ","Ꮉ","Ꮊ","Ꮋ","Ꮌ","Ꮍ","Ꮎ","Ꮏ","Ꮐ","Ꮑ",
     "Ꮒ","Ꮓ","Ꮔ","Ꮕ","Ꮖ","Ꮗ","Ꮘ","Ꮙ","Ꮚ","Ꮛ","Ꮜ","Ꮝ",
     "Ꮞ","Ꮟ","Ꮠ","Ꮡ","Ꮢ","Ꮣ","Ꮤ","Ꮥ","Ꮦ","Ꮧ","Ꮨ","Ꮩ",
     "Ꮪ","Ꮫ","Ꮬ","Ꮭ","Ꮮ","Ꮯ","Ꮰ","Ꮱ","Ꮲ","Ꮳ","Ꮴ","Ꮵ",
     "Ꮶ","Ꮷ","Ꮸ","Ꮹ","Ꮺ","Ꮻ","Ꮼ","Ꮽ","Ꮾ","Ꮿ","Ᏸ","Ᏹ",
     "Ᏺ","Ᏻ","Ᏼ","Ᏽ","ᏸ","ᏹ","ᏺ","ᏻ","ᏼ","ᏽ","ᲀ","ᲁ",
     "ᲂ","ᲃ","ᲄ","ᲅ","ᲆ","ᲇ","ᲈ","Ᲊ","ᲊ","Ა","Ბ","Გ",
     "Დ","Ე","Ვ","Ზ","Თ","Ი","Კ","Ლ","Მ","Ნ","Ო","Პ",
     "Ჟ","Რ","Ს","Ტ","Უ","Ფ","Ქ","Ღ","Ყ","Შ","Ჩ","Ც",
     "Ძ","Წ","Ჭ","Ხ","Ჯ","Ჰ","Ჱ","Ჲ","Ჳ","Ჴ","Ჵ","Ჶ",
     "Ჷ","Ჸ","Ჹ","Ჺ","Ჽ","Ჾ","Ჿ","U+1D00","U+1D01","U+1D02","U+1D03","U+1D04",
     "U+1D05","U+1D06","U+1D07","U+1D08","U+1D09","U+1D0A","U+1D0B","U+1D0C","U+1D0D","U+1D0E","U+1D0F","U+1D10",
     "U+1D11","U+1D12","U+1D13","U+1D14","U+1D15","U+1D16","U+1D17","U+1D18","U+1D19","U+1D1A","U+1D1B","U+1D1C",
     "U+1D1D","U+1D1E","U+1D1F","U+1D20","U+1D21","U+1D22","U+1D23","U+1D24","U+1D25","U+1D26","U+1D27","U+1D28",
     "U+1D29","U+1D2A","U+1D2B","U+1D6B","U+1D6C","U+1D6D","U+1D6E","U+1D6F","U+1D70","U+1D71","U+1D72","U+1D73",
     "U+1D74","U+1D75","U+1D76","U+1D77","U+1D79","U+1D7A","U+1D7B","U+1D7C","U+1D7D","U+1D7E","U+1D7F","ᶀ",
     "ᶁ","ᶂ","ᶃ","ᶄ","ᶅ","ᶆ","ᶇ","ᶈ","ᶉ","ᶊ","ᶋ","ᶌ",
     "ᶍ","ᶎ","ᶏ","ᶐ","ᶑ","ᶒ","ᶓ","ᶔ","ᶕ","ᶖ","ᶗ","ᶘ",
     "ᶙ","ᶚ","U+1E00","U+1E01","U+1E02","U+1E03","U+1E04","U+1E05","U+1E06","U+1E07","U+1E08","U+1E09",
     "U+1E0A","U+1E0B","U+1E0C","U+1E0D","U+1E0E","U+1E0F","U+1E10","U+1E11","U+1E12","U+1E13","U+1E14","U+1E15",
     "U+1E16","U+1E17","U+1E18","U+1E19","U+1E1A","U+1E1B","U+1E1C","U+1E1D","U+1E1E","U+1E1F","U+1E20","U+1E21",
     "U+1E22","U+1E23","U+1E24","U+1E25","U+1E26","U+1E27","U+1E28","U+1E29","U+1E2A","U+1E2B","U+1E2C","U+1E2D",
     "U+1E2E","U+1E2F","U+1E30","U+1E31","U+1E32","U+1E33","U+1E34","U+1E35","U+1E36","U+1E37","U+1E38","U+1E39",
     "U+1E3A","U+1E3B","U+1E3C","U+1E3D","U+1E3E","U+1E3F","U+1E40","U+1E41","U+1E42","U+1E43","U+1E44","U+1E45",
     "U+1E46","U+1E47","U+1E48","U+1E49","U+1E4A","U+1E4B","U+1E4C","U+1E4D","U+1E4E","U+1E4F","U+1E50","U+1E51",
     "U+1E52","U+1E53","U+1E54","U+1E55","U+1E56","U+1E57","U+1E58","U+1E59","U+1E5A","U+1E5B","U+1E5C","U+1E5D",
     "U+1E5E","U+1E5F","U+1E60","U+1E61","U+1E62","U+1E63","U+1E64","U+1E65","U+1E66","U+1E67","U+1E68","U+1E69",
     "U+1E6A","U+1E6B","U+1E6C","U+1E6D","U+1E6E","U+1E6F","U+1E70","U+1E71","U+1E72","U+1E73","U+1E74","U+1E75",
     "U+1E76","U+1E77","U+1E78","U+1E79","U+1E7A","U+1E7B","U+1E7C","U+1E7D","U+1E7E","U+1E7F","Ẁ","ẁ",
     "Ẃ","ẃ","Ẅ","ẅ","Ẇ","ẇ","Ẉ","ẉ","Ẋ","ẋ","Ẍ","ẍ",
     "Ẏ","ẏ","Ẑ","ẑ","Ẓ","ẓ","Ẕ","ẕ","ẖ","ẗ","ẘ","ẙ",
     "ẚ","ẛ","ẜ","ẝ","ẞ","ẟ","Ạ","ạ","Ả","ả","Ấ","ấ",
     "Ầ","ầ","Ẩ","ẩ","Ẫ","ẫ","Ậ","ậ","Ắ","ắ","Ằ","ằ",
     "Ẳ","ẳ","Ẵ","ẵ","Ặ","ặ","Ẹ","ẹ","Ẻ","ẻ","Ẽ","ẽ",
     "Ế","ế","Ề","ề","Ể","ể","Ễ","ễ","Ệ","ệ","Ỉ","ỉ",
     "Ị","ị","Ọ","ọ","Ỏ","ỏ","Ố","ố","Ồ","ồ","Ổ","ổ",
     "Ỗ","ỗ","Ộ","ộ","Ớ","ớ","Ờ","ờ","Ở","ở","Ỡ","ỡ",
     "Ợ","ợ","Ụ","ụ","Ủ","ủ","Ứ","ứ","Ừ","ừ","Ử","ử",
     "Ữ","ữ","Ự","ự","Ỳ","ỳ","Ỵ","ỵ","Ỷ","ỷ","Ỹ","ỹ",
     "Ỻ","ỻ","Ỽ","ỽ","Ỿ","ỿ","U+1F00","U+1F01","U+1F02","U+1F03","U+1F04","U+1F05",
     "U+1F06","U+1F07","U+1F08","U+1F09","U+1F0A","U+1F0B","U+1F0C","U+1F0D","U+1F0E","U+1F0F","U+1F10","U+1F11",
     "U+1F12","U+1F13","U+1F14","U+1F15","U+1F18","U+1F19","U+1F1A","U+1F1B","U+1F1C","U+1F1D","U+1F20","U+1F21",
     "U+1F22","U+1F23","U+1F24","U+1F25","U+1F26","U+1F27","U+1F28","U+1F29","U+1F2A","U+1F2B","U+1F2C","U+1F2D",
     "U+1F2E","U+1F2F","U+1F30","U+1F31","U+1F32","U+1F33","U+1F34","U+1F35","U+1F36","U+1F37","U+1F38","U+1F39",
     "U+1F3A","U+1F3B","U+1F3C","U+1F3D","U+1F3E","U+1F3F","U+1F40","U+1F41","U+1F42","U+1F43","U+1F44","U+1F45",
     "U+1F48","U+1F49","U+1F4A","U+1F4B","U+1F4C","U+1F4D","U+1F50","U+1F51","U+1F52","U+1F53","U+1F54","U+1F55",
     "U+1F56","U+1F57","U+1F59","U+1F5B","U+1F5D","U+1F5F","U+1F60","U+1F61","U+1F62","U+1F63","U+1F64","U+1F65",
     "U+1F66","U+1F67","U+1F68","U+1F69","U+1F6A","U+1F6B","U+1F6C","U+1F6D","U+1F6E","U+1F6F","U+1F70","U+1F71",
     "U+1F72","U+1F73","U+1F74","U+1F75","U+1F76","U+1F77","U+1F78","U+1F79","U+1F7A","U+1F7B","U+1F7C","U+1F7D",
     "ᾀ","ᾁ","ᾂ","ᾃ","ᾄ","ᾅ","ᾆ","ᾇ","ᾈ","ᾉ","ᾊ","ᾋ",
     "ᾌ","ᾍ","ᾎ","ᾏ","ᾐ","ᾑ","ᾒ","ᾓ","ᾔ","ᾕ","ᾖ","ᾗ",
     "ᾘ","ᾙ","ᾚ","ᾛ","ᾜ","ᾝ","ᾞ","ᾟ","ᾠ","ᾡ","ᾢ","ᾣ",
     "ᾤ","ᾥ","ᾦ","ᾧ","ᾨ","ᾩ","ᾪ","ᾫ","ᾬ","ᾭ","ᾮ","ᾯ",
     "ᾰ","ᾱ","ᾲ","ᾳ","ᾴ","ᾶ","ᾷ","Ᾰ","Ᾱ","Ὰ","Ά","ᾼ",
     "ι","ῂ","ῃ","ῄ","ῆ","ῇ","Ὲ","Έ","Ὴ","Ή","ῌ","ῐ",
     "ῑ","ῒ","ΐ","ῖ","ῗ","Ῐ","Ῑ","Ὶ","Ί","ῠ","ῡ","ῢ",
     "ΰ","ῤ","ῥ","ῦ","ῧ","Ῠ","Ῡ","Ὺ","Ύ","Ῥ","ῲ","ῳ",
     "ῴ","ῶ","ῷ","Ὸ","Ό","Ὼ","Ώ","ῼ","U+2102","U+2107","U+210A","U+210B",
     "U+210C","U+210D","U+210E","U+210F","U+2110","U+2111","U+2112","U+2113","U+2115","U+2119","U+211A","U+211B",
     "U+211C","U+211D","U+2124","U+2126","U+2128","U+212A","U+212B","U+212C","U+212D","U+212F","U+2130","U+2131",
     "U+2132","U+2133","U+2134","U+2139","U+213C","U+213D","U+213E","U+213F","U+2145","U+2146","U+2147","U+2148",
     "U+2149","U+214E","U+2160","U+2161","U+2162","U+2163","U+2164","U+2165","U+2166","U+2167","U+2168","U+2169",
     "U+216A","U+216B","U+216C","U+216D","U+216E","U+216F","U+2170","U+2171","U+2172","U+2173","U+2174","U+2175",
     "U+2176","U+2177","U+2178","U+2179","U+217A","U+217B","U+217C","U+217D","U+217E","U+217F","Ↄ","ↄ",
     "Ⓐ","Ⓑ","Ⓒ","Ⓓ","Ⓔ","Ⓕ","Ⓖ","Ⓗ","Ⓘ","Ⓙ","Ⓚ","Ⓛ",
     "Ⓜ","Ⓝ","Ⓞ","Ⓟ","Ⓠ","Ⓡ","Ⓢ","Ⓣ","Ⓤ","Ⓥ","Ⓦ","Ⓧ",
     "Ⓨ","Ⓩ","ⓐ","ⓑ","ⓒ","ⓓ","ⓔ","ⓕ","ⓖ","ⓗ","ⓘ","ⓙ",
     "ⓚ","ⓛ","ⓜ","ⓝ","ⓞ","ⓟ","ⓠ","ⓡ","ⓢ","ⓣ","ⓤ","ⓥ",
     "ⓦ","ⓧ","ⓨ","ⓩ","U+2C00","U+2C01","U+2C02","U+2C03","U+2C04","U+2C05","U+2C06","U+2C07",
     "U+2C08","U+2C09","U+2C0A","U+2C0B","U+2C0C","U+2C0D","U+2C0E","U+2C0F","U+2C10","U+2C11","U+2C12","U+2C13",
     "U+2C14","U+2C15","U+2C16","U+2C17","U+2C18","U+2C19","U+2C1A","U+2C1B","U+2C1C","U+2C1D","U+2C1E","U+2C1F",
     "U+2C20","U+2C21","U+2C22","U+2C23","U+2C24","U+2C25","U+2C26","U+2C27","U+2C28","U+2C29","U+2C2A","U+2C2B",
     "U+2C2C","U+2C2D","U+2C2E","U+2C2F","U+2C30","U+2C31","U+2C32","U+2C33","U+2C34","U+2C35","U+2C36","U+2C37",
     "U+2C38","U+2C39","U+2C3A","U+2C3B","U+2C3C","U+2C3D","U+2C3E","U+2C3F","U+2C40","U+2C41","U+2C42","U+2C43",
     "U+2C44","U+2C45","U+2C46","U+2C47","U+2C48","U+2C49","U+2C4A","U+2C4B","U+2C4C","U+2C4D","U+2C4E","U+2C4F",
     "U+2C50","U+2C51","U+2C52","U+2C53","U+2C54","U+2C55","U+2C56","U+2C57","U+2C58","U+2C59","U+2C5A","U+2C5B",
     "U+2C5C","U+2C5D","U+2C5E","U+2C5F","U+2C60","U+2C61","U+2C62","U+2C63","U+2C64","U+2C65","U+2C66","U+2C67",
     "U+2C68","U+2C69","U+2C6A","U+2C6B","U+2C6C","U+2C6D","U+2C6E","U+2C6F","U+2C70","U+2C71","U+2C72","U+2C73",
     "U+2C74","U+2C75","U+2C76","U+2C77","U+2C78","U+2C79","U+2C7A","U+2C7B","U+2C7E","U+2C7F","Ⲁ","ⲁ",
     "Ⲃ","ⲃ","Ⲅ","ⲅ","Ⲇ","ⲇ","Ⲉ","ⲉ","Ⲋ","ⲋ","Ⲍ","ⲍ",
     "Ⲏ","ⲏ","Ⲑ","ⲑ","Ⲓ","ⲓ","Ⲕ","ⲕ","Ⲗ","ⲗ","Ⲙ","ⲙ",
     "Ⲛ","ⲛ","Ⲝ","ⲝ","Ⲟ","ⲟ","Ⲡ","ⲡ","Ⲣ","ⲣ","Ⲥ","ⲥ",
     "Ⲧ","ⲧ","Ⲩ","ⲩ","Ⲫ","ⲫ","Ⲭ","ⲭ","Ⲯ","ⲯ","Ⲱ","ⲱ",
     "Ⲳ","ⲳ","Ⲵ","ⲵ","Ⲷ","ⲷ","Ⲹ","ⲹ","Ⲻ","ⲻ","Ⲽ","ⲽ",
     "Ⲿ","ⲿ","Ⳁ","ⳁ","Ⳃ","ⳃ","Ⳅ","ⳅ","Ⳇ","ⳇ","Ⳉ","ⳉ",
     "Ⳋ","ⳋ","Ⳍ","ⳍ","Ⳏ","ⳏ","Ⳑ","ⳑ","Ⳓ","ⳓ","Ⳕ","ⳕ",
     "Ⳗ","ⳗ","Ⳙ","ⳙ","Ⳛ","ⳛ","Ⳝ","ⳝ","Ⳟ","ⳟ","Ⳡ","ⳡ",
     "Ⳣ","ⳣ","ⳤ","Ⳬ","ⳬ","Ⳮ","ⳮ","Ⳳ","ⳳ","U+2D00","U+2D01","U+2D02",
     "U+2D03","U+2D04","U+2D05","U+2D06","U+2D07","U+2D08","U+2D09","U+2D0A","U+2D0B","U+2D0C","U+2D0D","U+2D0E",
     "U+2D0F","U+2D10","U+2D11","U+2D12","U+2D13","U+2D14","U+2D15","U+2D16","U+2D17","U+2D18","U+2D19","U+2D1A",
     "U+2D1B","U+2D1C","U+2D1D","U+2D1E","U+2D1F","U+2D20","U+2D21","U+2D22","U+2D23","U+2D24","U+2D25","U+2D27",
     "U+2D2D","U+A640","U+A641","U+A642","U+A643","U+A644","U+A645","U+A646","U+A647","U+A648","U+A649","U+A64A",
     "U+A64B","U+A64C","U+A64D","U+A64E","U+A64F","U+A650","U+A651","U+A652","U+A653","U+A654","U+A655","U+A656",
     "U+A657","U+A658","U+A659","U+A65A","U+A65B","U+A65C","U+A65D","U+A65E","U+A65F","U+A660","U+A661","U+A662",
     "U+A663","U+A664","U+A665","U+A666","U+A667","U+A668","U+A669","U+A66A","U+A66B","U+A66C","U+A66D","Ꚁ",
     "ꚁ","Ꚃ","ꚃ","Ꚅ","ꚅ","Ꚇ","ꚇ","Ꚉ","ꚉ","Ꚋ","ꚋ","Ꚍ",
     "ꚍ","Ꚏ","ꚏ","Ꚑ","ꚑ","Ꚓ","ꚓ","Ꚕ","ꚕ","Ꚗ","ꚗ","Ꚙ",
     "ꚙ","Ꚛ","ꚛ","U+A722","U+A723","U+A724","U+A725","U+A726","U+A727","U+A728","U+A729","U+A72A",
     "U+A72B","U+A72C","U+A72D","U+A72E","U+A72F","U+A730","U+A731","U+A732","U+A733","U+A734","U+A735","U+A736",
     "U+A737","U+A738","U+A739","U+A73A","U+A73B","U+A73C","U+A73D","U+A73E","U+A73F","U+A740","U+A741","U+A742",
     "U+A743","U+A744","U+A745","U+A746","U+A747","U+A748","U+A749","U+A74A","U+A74B","U+A74C","U+A74D","U+A74E",
     "U+A74F","U+A750","U+A751","U+A752","U+A753","U+A754","U+A755","U+A756","U+A757","U+A758","U+A759","U+A75A",
     "U+A75B","U+A75C","U+A75D","U+A75E","U+A75F","U+A760","U+A761","U+A762","U+A763","U+A764","U+A765","U+A766",
     "U+A767","U+A768","U+A769","U+A76A","U+A76B","U+A76C","U+A76D","U+A76E","U+A76F","U+A771","U+A772","U+A773",
     "U+A774","U+A775","U+A776","U+A777","U+A778","U+A779","U+A77A","U+A77B","U+A77C","U+A77D","U+A77E","U+A77F",
     "Ꞁ","ꞁ","Ꞃ","ꞃ","Ꞅ","ꞅ","Ꞇ","ꞇ","Ꞌ","ꞌ","Ɥ","ꞎ",
     "Ꞑ","ꞑ","Ꞓ","ꞓ","ꞔ","ꞕ","Ꞗ","ꞗ","Ꞙ","ꞙ","Ꞛ","ꞛ",
     "Ꞝ","ꞝ","Ꞟ","ꞟ","Ꞡ","ꞡ","Ꞣ","ꞣ","Ꞥ","ꞥ","Ꞧ","ꞧ",
     "Ꞩ","ꞩ","Ɦ","Ɜ","Ɡ","Ɬ","Ɪ","ꞯ","Ʞ","Ʇ","Ʝ","Ꭓ",
     "Ꞵ","ꞵ","Ꞷ","ꞷ","Ꞹ","ꞹ","Ꞻ","ꞻ","Ꞽ","ꞽ","Ꞿ","ꞿ",
     "Ꟁ","ꟁ","Ꟃ","ꟃ","Ꞔ","Ʂ","Ᶎ","Ꟈ","ꟈ","Ꟊ","ꟊ","Ɤ",
     "Ꟍ","ꟍ","꟎","꟏","Ꟑ","ꟑ","꟒","ꟓ","꟔","ꟕ","Ꟗ","ꟗ",
     "Ꟙ","ꟙ","Ꟛ","ꟛ","Ƛ","Ꟶ","ꟶ","ꟺ","U+AB30","U+AB31","U+AB32","U+AB33",
     "U+AB34","U+AB35","U+AB36","U+AB37","U+AB38","U+AB39","U+AB3A","U+AB3B","U+AB3C","U+AB3D","U+AB3E","U+AB3F",
     "U+AB40","U+AB41","U+AB42","U+AB43","U+AB44","U+AB45","U+AB46","U+AB47","U+AB48","U+AB49","U+AB4A","U+AB4B",
     "U+AB4C","U+AB4D","U+AB4E","U+AB4F","U+AB50","U+AB51","U+AB52","U+AB53","U+AB54","U+AB55","U+AB56","U+AB57",
     "U+AB58","U+AB59","U+AB5A","U+AB60","U+AB61","U+AB62","U+AB63","U+AB64","U+AB65","U+AB66","U+AB67","U+AB68",
     "U+AB70","U+AB71","U+AB72","U+AB73","U+AB74","U+AB75","U+AB76","U+AB77","U+AB78","U+AB79","U+AB7A","U+AB7B",
     "U+AB7C","U+AB7D","U+AB7E","U+AB7F","ꮀ","ꮁ","ꮂ","ꮃ","ꮄ","ꮅ","ꮆ","ꮇ",
     "ꮈ","ꮉ","ꮊ","ꮋ","ꮌ","ꮍ","ꮎ","ꮏ","ꮐ","ꮑ","ꮒ","ꮓ",
     "ꮔ","ꮕ","ꮖ","ꮗ","ꮘ","ꮙ","ꮚ","ꮛ","ꮜ","ꮝ","ꮞ","ꮟ",
     "ꮠ","ꮡ","ꮢ","ꮣ","ꮤ","ꮥ","ꮦ","ꮧ","ꮨ","ꮩ","ꮪ","ꮫ",
     "ꮬ","ꮭ","ꮮ","ꮯ","ꮰ","ꮱ","ꮲ","ꮳ","ꮴ","ꮵ","ꮶ","ꮷ",
     "ꮸ","ꮹ","ꮺ","ꮻ","ꮼ","ꮽ","ꮾ","ꮿ","U+FB00","U+FB01","U+FB02","U+FB03",
     "U+FB04","U+FB05","U+FB06","U+FB13","U+FB14","U+FB15","U+FB16","U+FB17","U+FF21","U+FF22","U+FF23","U+FF24",
     "U+FF25","U+FF26","U+FF27","U+FF28","U+FF29","U+FF2A","U+FF2B","U+FF2C","U+FF2D","U+FF2E","U+FF2F","U+FF30",
     "U+FF31","U+FF32","U+FF33","U+FF34","U+FF35","U+FF36","U+FF37","U+FF38","U+FF39","U+FF3A","U+FF41","U+FF42",
     "U+FF43","U+FF44","U+FF45","U+FF46","U+FF47","U+FF48","U+FF49","U+FF4A","U+FF4B","U+FF4C","U+FF4D","U+FF4E",
     "U+FF4F","U+FF50","U+FF51","U+FF52","U+FF53","U+FF54","U+FF55","U+FF56","U+FF57","U+FF58","U+FF59","U+FF5A" }

IndexOf(c, tbl) == IF \E i \in DOMAIN tbl : tbl[i] = c
                   THEN CHOOSE i \in DOMAIN tbl : tbl[i] = c
                   ELSE 0

HasUpper   == {UpperFrom[i] : i \in DOMAIN UpperFrom}
HasSpecial == {UpperSpecialFrom[i] : i \in DOMAIN UpperSpecialFrom}
HasLower   == {LowerFrom[i] : i \in DOMAIN LowerFrom}
HasLowerSpecial == {LowerSpecialFrom[i] : i \in DOMAIN LowerSpecialFrom}

\* the tables as functions from a character to its upper or lower case
UpperMap == [c \in HasUpper |-> <<UpperTo[IndexOf(c, UpperFrom)]>>]
UpperSpecialMap ==
  [c \in HasSpecial |-> UpperSpecialTo[IndexOf(c, UpperSpecialFrom)]]
LowerMap == [c \in HasLower |-> <<LowerTo[IndexOf(c, LowerFrom)]>>]
LowerSpecialMap ==
  [c \in HasLowerSpecial |-> LowerSpecialTo[IndexOf(c, LowerSpecialFrom)]]

\* the upper case of one character, a string of one or more characters
upperOf(c) == IF c \in HasUpper THEN UpperMap[c]
              ELSE IF c \in HasSpecial THEN UpperSpecialMap[c]
              ELSE <<c>>

\* the lower case of one character other than the capital sigma, a string
\* of one or more characters
lowerOf(c) == IF c \in HasLower THEN LowerMap[c]
              ELSE IF c \in HasLowerSpecial THEN LowerSpecialMap[c]
              ELSE <<c>>

\* Final_Sigma: the capital sigma at s[i] ends a word: a cased letter comes
\* before it and none comes after it, case-ignorable characters skipped
FinalSigma(s, i) ==
  /\ \E j \in 1..(i - 1) :
       /\ s[j] \in Cased
       /\ \A t \in (j + 1)..(i - 1) : s[t] \in CaseIgnorable
  /\ ~\E j \in (i + 1)..Len(s) :
       /\ s[j] \in Cased
       /\ \A t \in (i + 1)..(j - 1) : s[t] \in CaseIgnorable

\* the lower case of the character at s[i]
lowerAt(s, i) == IF s[i] = "Σ"
                 THEN (IF FinalSigma(s, i) THEN <<"ς">> ELSE <<"σ">>)
                 ELSE lowerOf(s[i])

RECURSIVE upperRange(_, _, _)
upperRange(s, lo, hi) ==
  IF lo > hi THEN <<>>
  ELSE IF lo = hi THEN upperOf(s[lo])
  ELSE upperRange(s, lo, (lo + hi) \div 2)
       \o upperRange(s, (lo + hi) \div 2 + 1, hi)

toUpperCase(s) == upperRange(s, 1, Len(s))

RECURSIVE lowerRange(_, _, _)
lowerRange(s, lo, hi) ==
  IF lo > hi THEN <<>>
  ELSE IF lo = hi THEN lowerAt(s, lo)
  ELSE lowerRange(s, lo, (lo + hi) \div 2)
       \o lowerRange(s, (lo + hi) \div 2 + 1, hi)

toLowerCase(s) == lowerRange(s, 1, Len(s))

trimStart(s) ==
  IF \A i \in DOMAIN s : s[i] \in WhiteSpace THEN <<>>
  ELSE SubSeq(s, CHOOSE i \in DOMAIN s :
                   s[i] \notin WhiteSpace
                   /\ \A j \in 1..(i - 1) : s[j] \in WhiteSpace, Len(s))

trimEnd(s) ==
  IF \A i \in DOMAIN s : s[i] \in WhiteSpace THEN <<>>
  ELSE SubSeq(s, 1, CHOOSE i \in DOMAIN s :
                      s[i] \notin WhiteSpace
                      /\ \A j \in (i + 1)..Len(s) : s[j] \in WhiteSpace)

trim(s) == trimEnd(trimStart(s))

\* String.prototype.includes: q occurs in s at some offset.
includes(s, q) ==
  \E off \in 0..Len(s) : off + Len(q) <= Len(s)
                         /\ SubSeq(s, off + 1, off + Len(q)) = q

\* Only strings have .trim / .toUpperCase / .toLowerCase; calling them on
\* another value raises a TypeError.
HasStringMethods(v) == v.t = "str"

----------------------------------------------------------------------------
(* Number(value): StringToNumber of ECMAScript.                            *)

DigitChars == <<"0","1","2","3","4","5","6","7","8","9">>
HexLower   == <<"0","1","2","3","4","5","6","7","8","9","a","b","c","d","e","f">>
HexUpper   == <<"0","1","2","3","4","5","6","7","8","9","A","B","C","D","E","F">>

\* the value of a digit character, 16 for any other character
DigitOf(c) == IF IndexOf(c, HexLower) > 0 THEN IndexOf(c, HexLower) - 1
              ELSE IF IndexOf(c, HexUpper) > 0 THEN IndexOf(c, HexUpper) - 1
              ELSE 16

\* every character is a digit of the base (the empty string too)
AllDigits(s, base) == \A i \in DOMAIN s : DigitOf(s[i]) < base

IsDigits(s) == s # <<>> /\ AllDigits(s, 10)

\* the decimal digits of a string of digits
DigitSeq(s) == [i \in 1..Len(s) |-> DigitOf(s[i])]

\* the number that the digits s[lo..hi] write in the base
RECURSIVE RadixNat(_, _, _, _)
RadixNat(s, base, lo, hi) ==
  IF lo > hi THEN <<>>
  ELSE IF lo = hi THEN IntDigits(DigitOf(s[lo]))
  ELSE AddNat(MulNat(RadixNat(s, base, lo, (lo + hi) \div 2),
                     PowNat(IntDigits(base), hi - (lo + hi) \div 2)),
              RadixNat(s, base, (lo + hi) \div 2 + 1, hi))

\* an exponent: the value of its digits, or 10^8 when it has more than 8
\* (either is beyond every finite double)
RECURSIVE SmallValue(_)
SmallValue(d) == IF d = <<>> THEN 0
                 ELSE 10 * SmallValue(SubSeq(d, 1, Len(d) - 1)) + d[Len(d)]

ExpValue(s) == IF Len(StripLeft(DigitSeq(s))) > 8 THEN 100000000
               ELSE SmallValue(StripLeft(DigitSeq(s)))

\* position of the first character of s that is in S, 0 if none
FirstIn(s, S) == IF \E i \in DOMAIN s : s[i] \in S
                 THEN CHOOSE i \in DOMAIN s :
                        s[i] \in S /\ \A j \in 1..(i - 1) : s[j] \notin S
                 ELSE 0

InfinityLit == <<"I","n","f","i","n","i","t","y">>

\* The mathematical value of a numeric literal: the decimal d * 10^e,
\* negated when neg. StringToNumber rounds it to a Number.
Dec(neg, d, e) == [k |-> "dec", neg |-> neg, d |-> d, e |-> e]

RoundMV(m) == IF m.k = "dec" THEN ToDouble(m.neg, m.d, m.e) ELSE m

\* StrUnsignedDecimalLiteral: digits, an optional fraction, an optional
\* exponent ("1", "1.5", ".5", "1.", "1e3", "1.5E-2"); NaN when s is none.
UnsignedDecimal(s, neg) ==
  LET ei    == FirstIn(s, {"e", "E"})
      mant  == IF ei > 0 THEN SubSeq(s, 1, ei - 1) ELSE s
      ex    == IF ei > 0 THEN SubSeq(s, ei + 1, Len(s)) ELSE <<>>
      exNeg == ex # <<>> /\ Head(ex) = "-"
      exDig == IF ex # <<>> /\ Head(ex) \in {"-", "+"} THEN Tail(ex) ELSE ex
      di    == FirstIn(mant, {"."})
      ip    == IF di > 0 THEN SubSeq(mant, 1, di - 1) ELSE mant
      fp    == IF di > 0 THEN SubSeq(mant, di + 1, Len(mant)) ELSE <<>>
      exVal == IF ei = 0 THEN 0
               ELSE IF exNeg THEN 0 - ExpValue(exDig) ELSE ExpValue(exDig)
  IN  IF /\ ei > 0 => IsDigits(exDig)
         /\ AllDigits(ip, 10) /\ AllDigits(fp, 10)
         /\ (ip # <<>> \/ fp # <<>>)
      THEN Dec(neg, DigitSeq(ip \o fp), exVal - Len(fp))
      ELSE NaN

\* NonDecimalIntegerLiteral: the digits after 0x / 0o / 0b, of 4 / 3 / 1
\* bits each; with more than 1024 bits the number is beyond every finite
\* double
RadixLiteral(rest, bits) ==
  LET sig == SubSeq(rest, FirstIn(rest, {rest[i] : i \in DOMAIN rest} \ {"0"}), Len(rest))
  IN  IF rest = <<>> \/ ~AllDigits(rest, 2^bits) THEN NaN
      ELSE IF \A i \in DOMAIN rest : rest[i] = "0" THEN Zero
      ELSE IF (Len(sig) - 1) * bits >= 1024 THEN Inf(FALSE)
      ELSE Dec(FALSE, RadixNat(sig, 2^bits, 1, Len(sig)), 0)

RadixBits(c) == IF c \in {"x", "X"} THEN 4 ELSE IF c \in {"o", "O"} THEN 3 ELSE 1

\* StringNumericLiteral: white space is trimmed; the empty string is 0;
\* 0x / 0o / 0b literals take no sign; then an optional sign and Infinity
\* or a decimal literal; anything else is NaN.
StringNumericLiteral(raw) ==
  LET Signed(s, body) ==
        IF body = InfinityLit THEN Inf(Head(s) = "-")
        ELSE UnsignedDecimal(body, Head(s) = "-")
      Lit(s) ==
        IF s = <<>> THEN Zero
        ELSE IF Len(s) >= 2 /\ s[1] = "0"
                /\ s[2] \in {"x", "X", "o", "O", "b", "B"}
             THEN RadixLiteral(SubSeq(s, 3, Len(s)), RadixBits(s[2]))
        ELSE Signed(s, IF Head(s) \in {"-", "+"} THEN Tail(s) ELSE s)
  IN  Lit(trim(raw))

\* StringToNumber
StringToNumber(raw) == RoundMV(StringNumericLiteral(raw))

\* Number(v)
Number(v) == CASE v.t = "undef" -> NaN
               [] v.t = "null"  -> Zero
               [] v.t = "str"   -> StringToNumber(v.s)
               [] v.t = "num"   -> ToDouble(v.neg, v.d, v.e)
               [] OTHER         -> NaN

\* the integer n as a Number (every integer of the module is a double)
Fin(n) == [k |-> "fin", neg |-> n < 0, d |-> StripRight(IntDigits(Abs(n))),
           e |-> Len(IntDigits(Abs(n))) - LastNonZero(IntDigits(Abs(n)))]

\* Number.isNaN
isNaN(x) == x.k = "nan"

\* ToBoolean
Truthy(v) == CASE v.t = "undef" -> FALSE
               [] v.t = "null"  -> FALSE
               [] v.t = "str"   -> v.s # <<>>
               [] v.t = "num"   -> Number(v) # Zero
               [] OTHER         -> TRUE

\* (v || "")
OrEmpty(v) == IF Truthy(v) THEN v ELSE Str(<<>>)

\* JSON.stringify of a number: non-finite numbers are written as null.
JsonNumber(x) == IF x.k = "fin" THEN x ELSE Null

----------------------------------------------------------------------------
(* The persisted document data/db.json and the dataset it holds.           *)
(*   kind = "unreadable" : missing or malformed file (JSON.parse throws)   *)
(*          "falsy"      : well-formed JSON null, 0, false or ""           *)
(*          "prim"       : well-formed truthy number, string or true       *)
(*          "arr"        : a top-level JSON array                          *)
(*          "obj"        : a JSON object, the dataset                      *)
(* hasItems / hasRacks say whether the object has the key at all.          *)

NoValue == "undefined"

Doc(kind, company, warehouse, hasItems, items, hasRacks, racks) ==
  [kind |-> kind, company |-> company, warehouse |-> warehouse,
   hasItems |-> hasItems, items |-> items, hasRacks |-> hasRacks, racks |-> racks]

Bare(kind) == Doc(kind, NoValue, NoValue, FALSE, <<>>, FALSE, <<>>)

Rack(id, code, x, y) == [id |-> id, code |-> code, x |-> x, y |-> y]
Item(id, name, code, rackId) == [id |-> id, name |-> name, code |-> code, rackId |-> rackId]

NoRack == Rack(<<>>, <<>>, Null, Null)

\* fs.readFileSync + JSON.parse inside try/catch: a failure yields null.
loadDB(f) == IF f.kind = "unreadable" THEN Bare("falsy") ELSE f

\* !db
NotDb(db) == db.kind = "falsy"

JsonRack(r) == Rack(r.id, r.code, JsonNumber(r.x), JsonNumber(r.y))

\* JSON.stringify(db, null, 2): an object keeps its keys; an array is
\* written as its elements only, so a racks property set on it is dropped.
JSONstringify(db) ==
  IF db.kind = "obj"
  THEN [db EXCEPT !.racks = [i \in DOMAIN db.racks |-> JsonRack(db.racks[i])]]
  ELSE Bare(db.kind)

\* What fs.writeFileSync does: it writes the document ("ok"), or throws
\* before it has opened the file ("failAtOpen": EPERM, EROFS), or throws
\* after it has opened and truncated it ("failAtWrite": ENOSPC, EFBIG),
\* which leaves an empty or cut-off file.
WriteOutcomes == {"ok", "failAtOpen", "failAtWrite"}

\* saveDB: the document after the call; it returns true exactly when
\* write = "ok".
saveDB(f, db, write) ==
  CASE write = "ok"          -> JSONstringify(db)
    [] write = "failAtOpen"  -> f
    [] write = "failAtWrite" -> Bare("unreadable")

----------------------------------------------------------------------------
(* POST /api/admin/rack *)

\* rackFind changed so that it never finds a rack: every upsert creates one
rackFindNothing(racks, code) == 0

\* db.racks.find((r) => r.code === code): index of the first match, 0 if none
rackFind(racks, code) ==
  IF \E i \in DOMAIN racks : racks[i].code = code
  THEN CHOOSE i \in DOMAIN racks :
         racks[i].code = code /\ \A j \in 1..(i - 1) : racks[j].code # code
  ELSE 0

\* newRackId without the "R-" prefix
newRackIdPlain(code) == code

\* `R-${code}`
newRackId(code) == <<"R", "-">> \o code

\* lines 173-191: the dataset and the rack after find-or-create.
upsertRack(db, code, x, y) ==
  LET racks == IF db.hasRacks THEN db.racks ELSE <<>>
      i     == rackFind(racks, code)
      new   == Rack(newRackId(code), code, x, y)
  IN  IF i = 0
      THEN [db   |-> [db EXCEPT !.hasRacks = TRUE, !.racks = Append(racks, new)],
            rack |-> new]
      ELSE [db   |-> [db EXCEPT !.racks = [racks EXCEPT ![i].x = x, ![i].y = y]],
            rack |-> [racks[i] EXCEPT !.x = x, !.y = y]]

RackResp(kind, status, structured, message, code, rack) ==
  [kind |-> kind, status |-> status, structured |-> structured,
   message |-> message, code |-> code, rack |-> rack]

NoResp == RackResp("none", 0, FALSE, "", <<>>, NoRack)
\* a TypeError escaping the handler: Express answers with its own error page
Fault        == RackResp("fault", 500, FALSE, "TypeError", <<>>, NoRack)
InvalidInput == RackResp("invalid", 400, TRUE,
                         "Data tidak valid. Pastikan code, x, y ada.", <<>>, NoRack)
Unavailable  == RackResp("unavailable", 500, TRUE, "DB tidak bisa dibaca", <<>>, NoRack)
WriteFailed  == RackResp("writefailed", 500, TRUE, "Gagal menyimpan DB", <<>>, NoRack)
Saved(code, rack) == RackResp("ok", 200, TRUE, "Rack ${code} berhasil disimpan",
                              code, JsonRack(rack))

NoMem == [db |-> Bare("falsy"), rack |-> NoRack, code |-> <<>>]

\* a handler that trims the request's code and leaves its letter case
normCodeTrimOnly(body) == trim(OrEmpty(body.code).s)

\* (req.body.code || "").trim().toUpperCase(), when it does not throw
normCode(body) == toUpperCase(trim(OrEmpty(body.code).s))

\* lines 157-191: everything the handler does before saveDB.
\* next = "done": the handler returned (or threw) with resp;
\* next = "loaded": the dataset is mutated in memory and saveDB comes next.
rackBegin(f, body) ==
  LET Done(resp, n) == [next |-> "done", resp |-> resp, loads |-> n, mem |-> NoMem]
      Upserted(code, up) ==
        [next |-> "loaded", resp |-> NoResp, loads |-> 1,
         mem |-> [db |-> up.db, rack |-> up.rack, code |-> code]]
      Checked(code, x, y, db) ==
        IF code = <<>> \/ isNaN(x) \/ isNaN(y) THEN Done(InvalidInput, 0)
        ELSE IF NotDb(db) THEN Done(Unavailable, 1)
        ELSE IF db.kind = "prim" THEN Done(Fault, 1)
        ELSE Upserted(code, upsertRack(db, code, x, y))
  IN  IF ~HasStringMethods(OrEmpty(body.code)) THEN Done(Fault, 0)
      ELSE Checked(normCode(body), Number(body.x), Number(body.y), loadDB(f))

----------------------------------------------------------------------------
(* GET /api/search, GET /api/map, GET /api/health *)

\* itemMatches that looks at the name only
itemMatchesNameOnly(it, q) == includes(toLowerCase(OrEmpty(Str(it.name)).s), q)

\* the filter callback, lines 100-104
itemMatches(it, q) ==
  LET name == toLowerCase(OrEmpty(Str(it.name)).s)
      code == toLowerCase(OrEmpty(Str(it.code)).s)
  IN  includes(name, q) \/ includes(code, q)

RECURSIVE filter(_, _)
filter(items, q) ==
  IF items = <<>> THEN <<>>
  ELSE IF itemMatches(Head(items), q)
       THEN <<Head(items)>> \o filter(Tail(items), q)
       ELSE filter(Tail(items), q)

\* rackById that falls back to the first rack when no id matches
rackByIdOrFirst(racks, rid) ==
  IF \E i \in DOMAIN racks : rid.t = "str" /\ racks[i].id = rid.s
  THEN CHOOSE i \in DOMAIN racks :
         /\ rid.t = "str" /\ racks[i].id = rid.s
         /\ \A j \in 1..(i - 1) : racks[j].id # rid.s
  ELSE IF racks # <<>> THEN 1 ELSE 0

\* racks.find((r) => r.id === it.rackId): index of the first match, 0 if none
rackById(racks, rid) ==
  IF \E i \in DOMAIN racks : rid.t = "str" /\ racks[i].id = rid.s
  THEN CHOOSE i \in DOMAIN racks :
         /\ rid.t = "str" /\ racks[i].id = rid.s
         /\ \A j \in 1..(i - 1) : racks[j].id # rid.s
  ELSE 0

Dash == <<"-">>

\* the map callback, lines 105-116
joinRack(it, racks) ==
  LET i == rackById(racks, it.rackId)
  IN  [id |-> it.id, name |-> it.name, code |-> it.code, rackId |-> it.rackId,
       rackCode |-> IF i > 0 THEN racks[i].code ELSE Dash,
       rackX    |-> IF i > 0 THEN racks[i].x ELSE Null,
       rackY    |-> IF i > 0 THEN racks[i].y ELSE Null]

searchResults(db, q) ==
  LET items   == IF db.hasItems THEN db.items ELSE <<>>
      racks   == IF db.hasRacks THEN db.racks ELSE <<>>
      matched == filter(items, q)
  IN  [i \in DOMAIN matched |-> joinRack(matched[i], racks)]

Out(op, kind, status, structured, message, query, total, results, company, warehouse, racks) ==
  [op |-> op, kind |-> kind, status |-> status, structured |-> structured,
   message |-> message, query |-> query, total |-> total, results |-> results,
   company |-> company, warehouse |-> warehouse, racks |-> racks]

\* total = -1 : the response has no total field
NoOut == Out("none", "none", 0, FALSE, "", <<>>, -1, <<>>, NoValue, NoValue, <<>>)
OutFault(op) == Out(op, "fault", 500, FALSE, "TypeError", <<>>, -1, <<>>,
                    NoValue, NoValue, <<>>)
OutUnavailable(op) == Out(op, "unavailable", 500, TRUE, "DB tidak bisa dibaca",
                          <<>>, -1, <<>>, NoValue, NoValue, <<>>)

\* (req.query.q || "").trim().toLowerCase(), when it does not throw
normQuery(qv) == toLowerCase(trim(OrEmpty(qv).s))

\* GET /api/search, lines 80-124
search(f, qv) ==
  LET Found(q, results) ==
        Out("search", "ok", 200, TRUE, "", q, Len(results), results,
            NoValue, NoValue, <<>>)
      Query(q, db) ==
        IF q = <<>>
        THEN Out("search", "empty", 200, TRUE, "Query kosong", <<>>, -1, <<>>,
                 NoValue, NoValue, <<>>)
        ELSE IF NotDb(db) THEN OutUnavailable("search")
        ELSE Found(q, searchResults(db, q))
  IN  IF ~HasStringMethods(OrEmpty(qv)) THEN OutFault("search")
      ELSE Query(normQuery(qv), loadDB(f))

\* GET /api/map, lines 129-142
map(f) ==
  LET db == loadDB(f)
  IN  IF NotDb(db) THEN OutUnavailable("map")
      ELSE Out("map", "ok", 200, TRUE, "", <<>>, -1, <<>>, db.company,
               db.warehouse, IF db.hasRacks THEN db.racks ELSE <<>>)

\* GET /api/health, lines 68-75 (the time field is left out)
health == Out("health", "ok", 200, TRUE, "", <<>>, -1, <<>>,
              "PT Granitoguna Building Ceramics", NoValue, <<>>)

----------------------------------------------------------------------------
(* Inputs: the documents data/db.json may hold when the server starts, the *)
(* bodies of POST /api/admin/rack and the q parameters of GET /api/search. *)

A1  == <<"A", "1">>
B2  == <<"B", "2">>
RA1 == <<"R", "-", "A", "1">>
RB2 == <<"R", "-", "B", "2">>

\* the name of I3 ends in a capital sigma: in lower case it is "ας", which
\* does not contain the lower case "σ" of the query "Σ"
Items3 ==
  << Item("I1", <<"B","o","l","t"," ","M","6">>, <<"B","L","T","6">>, Str(RA1)),
     Item("I2", <<"N","u","t">>, <<"m","6","n">>, Str(<<"R","-","9","9","9">>)),
     Item("I3", <<"Α","Σ">>, <<"C","1">>, JsNull) >>

\* the dataset of the spec's end-to-end example, with two more items
DocMain  == Doc("obj", "PT Granito", "WH-1", TRUE, Items3,
                TRUE, << Rack(RA1, A1, Fin(10), Fin(20)) >>)
\* the dataset after the upserts of A1 and B2: rack codes are stored as
\* line 157 makes them, trimmed and in upper case, with the id of line 179
DocTwoRacks == Doc("obj", "PT Granito", "WH-1", TRUE, SubSeq(Items3, 1, 1),
                   TRUE, << Rack(RA1, A1, Fin(10), Fin(20)),
                            Rack(RB2, B2, Fin(1), Fin(1)) >>)
\* {} : an object with neither items nor racks
DocEmpty == Doc("obj", NoValue, NoValue, FALSE, <<>>, FALSE, <<>>)

InitDocs == { Bare("unreadable"), Bare("falsy"), Bare("prim"), Bare("arr"),
              DocEmpty, DocMain, DocTwoRacks }

Body(code, x, y) == [code |-> code, x |-> x, y |-> y]

RackBodies ==
  { Body(Str(<<"a","1">>), Num(1), Num(2)),
    Body(Str(<<"\r"," ","A","1","\n">>), Str(<<"1",".","5">>), NumE(25, -1)),
    Body(Str(<<"b","2">>), Num(5), Num(5)),
    Body(Str(<<" ">>), Num(1), Num(1)),
    Body(Undef, Num(1), Num(1)),
    Body(Str(<<"a","1">>), Str(<<"a","b","c">>), Num(1)),
    Body(Str(<<"b","2">>), Num(1), Undef),
    Body(Str(<<"a","1">>), Str(InfinityLit), Num(1)),
    Body(Num(5), Num(1), Num(1)) }

NoBody == Body(Undef, Undef, Undef)

Queries == { Undef, Str(<<" ">>), Str(<<"M","6","\r","\n">>), Str(<<"b","l","t">>),
             Str(<<"Σ">>), Str(<<"c","1">>), ArrAB }

----------------------------------------------------------------------------
(* State *)

VARIABLES
  file,    \* the content of data/db.json
  pc,      \* per admin request: "free", "loaded" (between loadDB and saveDB), "done"
  req,     \* per admin request: its body
  mem,     \* per admin request: db, rack and code while it is "loaded"
  resp,    \* per admin request: the response it got
  loads,   \* per admin request: number of loadDB calls it made
  saves,   \* per admin request: number of saveDB calls it made
  saved,   \* the admin requests whose saveDB returned true, in that order
  out      \* the response to the latest search, map or health request

vars == <<file, pc, req, mem, resp, loads, saves, saved, out>>

Init ==
  /\ file \in InitDocs
  /\ pc = [r \in Slots |-> "free"]
  /\ req = [r \in Slots |-> NoBody]
  /\ mem = [r \in Slots |-> NoMem]
  /\ resp = [r \in Slots |-> NoResp]
  /\ loads = [r \in Slots |-> 0]
  /\ saves = [r \in Slots |-> 0]
  /\ saved = <<>>
  /\ out = NoOut

\* EventLoopFree for handlers that yield between loadDB and saveDB
EventLoopAlwaysFree == TRUE

\* Handlers are synchronous callbacks of one Node.js event loop
\* (readFileSync, writeFileSync, no await): a handler starts only when no
\* other handler is between its first and its last statement.
EventLoopFree == \A r \in Slots : pc[r] # "loaded"

\* POST /api/admin/rack, lines 157-191. The handler is written as two steps,
\* before saveDB and from saveDB on, so that "between load and save" is a
\* position a request can be seen in; EventLoopFree keeps every other
\* handler out while a request is in that position.
RackBegin(r, body) ==
  LET Handled(b) ==
        /\ req' = [req EXCEPT ![r] = body]
        /\ pc' = [pc EXCEPT ![r] = b.next]
        /\ mem' = [mem EXCEPT ![r] = b.mem]
        /\ resp' = [resp EXCEPT ![r] = b.resp]
        /\ loads' = [loads EXCEPT ![r] = b.loads]
        /\ UNCHANGED <<file, saves, saved, out>>
  IN  /\ EventLoopFree
      /\ pc[r] = "free"
      /\ \A s \in 1..(r - 1) : pc[s] # "free"
      /\ Handled(rackBegin(file, body))

\* POST /api/admin/rack, lines 193-205
RackSave(r, write) ==
  /\ pc[r] = "loaded"
  /\ file' = saveDB(file, mem[r].db, write)
  /\ resp' = [resp EXCEPT ![r] = IF write = "ok" THEN Saved(mem[r].code, mem[r].rack)
                                                ELSE WriteFailed]
  /\ saves' = [saves EXCEPT ![r] = 1]
  /\ saved' = IF write = "ok" THEN Append(saved, r) ELSE saved
  /\ pc' = [pc EXCEPT ![r] = "done"]
  /\ mem' = [mem EXCEPT ![r] = NoMem]
  /\ UNCHANGED <<req, loads, out>>

Search(qv) ==
  /\ EventLoopFree
  /\ out' = search(file, qv)
  /\ UNCHANGED <<file, pc, req, mem, resp, loads, saves, saved>>

Map ==
  /\ EventLoopFree
  /\ out' = map(file)
  /\ UNCHANGED <<file, pc, req, mem, resp, loads, saves, saved>>

Health ==
  /\ EventLoopFree
  /\ out' = health
  /\ UNCHANGED <<file, pc, req, mem, resp, loads, saves, saved>>

Next ==
  \/ \E r \in Slots, body \in RackBodies : RackBegin(r, body)
  \/ \E r \in Slots, write \in WriteOutcomes : RackSave(r, write)
  \/ \E qv \in Queries : Search(qv)
  \/ Map
  \/ Health

Spec == Init /\ [][Next]_vars

----------------------------------------------------------------------------
(* Properties *)

\* the racks of the persisted dataset
FileRacks == IF file.kind = "obj" /\ file.hasRacks THEN file.racks ELSE <<>>

CountCode(racks, code) == Cardinality({i \in DOMAIN racks : racks[i].code = code})

\* the step in which request r runs lines 157-191
Begins(r) == pc[r] = "free" /\ pc'[r] # "free"
\* the step in which request r runs saveDB and answers
Saves(r) == pc[r] = "loaded" /\ pc'[r] = "done"

IsBlank(s) == \A i \in DOMAIN s : s[i] \in WhiteSpace

\* the request's code is missing or empty after trimming
CodeBlank(v) == v.t \in {"undef", "null"} \/ (v.t = "str" /\ IsBlank(v.s))
\* the value does not parse to a finite number
NotFinite(v) == Number(v).k # "fin"

\* C1: no two racks of the persisted dataset have the same code, in every
\* state reached by admin rack upserts.
C1_UniqueCodes ==
  \A i, j \in DOMAIN FileRacks : i # j => FileRacks[i].code # FileRacks[j].code

\* C1 witness: two upserts whose raw codes differ but normalize to the same
\* code were both saved, and the dataset holds one rack with that code.
C1_Witness ==
  /\ Len(saved) = 2
  /\ req[saved[1]].code # req[saved[2]].code
  /\ resp[saved[1]].code = resp[saved[2]].code
  /\ CountCode(FileRacks, resp[saved[1]].code) = 1

\* C2 as stated: an upsert whose code is empty after trimming, or whose x or
\* y does not parse to a finite number, gets the InvalidInput response and
\* makes no load and no save, and the persisted document is unchanged.
C2_InvalidRejected ==
  [][\A r \in Slots :
       (Begins(r) /\ (CodeBlank(req'[r].code) \/ NotFinite(req'[r].x)
                      \/ NotFinite(req'[r].y)))
       => /\ pc'[r] = "done"
          /\ resp'[r] = InvalidInput
          /\ loads'[r] = 0 /\ saves'[r] = 0
          /\ file' = file]_vars


\* C3 as stated: the load and save phases of two upserts interleave
\* arbitrarily, so while one request is between its load and its save the
\* next request can run its own load (and then save before the first does).
C3_InterleavingPossible ==
  \A a, b \in Slots :
    (pc[a] = "loaded" /\ pc[b] = "free" /\ \A s \in 1..(b - 1) : pc[s] # "free")
    => ENABLED (\E body \in RackBodies : RackBegin(b, body))

\* the last confirmed upsert of the code that the i-th confirmed upsert wrote
LastSaveOf(i) ==
  CHOOSE j \in DOMAIN saved :
    /\ resp[saved[j]].code = resp[saved[i]].code
    /\ \A k \in DOMAIN saved : resp[saved[k]].code = resp[saved[i]].code => k <= j

\* C3 amended: upserts run one at a time, each from its load to its save, so
\* no confirmed update is lost: at most one request is between load and save,
\* and a persisted dataset object holds, for every confirmed upsert, a rack
\* with its code and the coordinates returned by the last confirmed upsert
\* of that code.
C3_NoLostUpdate ==
  /\ Cardinality({r \in Slots : pc[r] = "loaded"}) <= 1
  /\ file.kind = "obj" =>
       \A i \in DOMAIN saved :
         \E k \in DOMAIN FileRacks :
           /\ FileRacks[k].code = resp[saved[i]].code
           /\ FileRacks[k].x = resp[saved[LastSaveOf(i)]].rack.x
           /\ FileRacks[k].y = resp[saved[LastSaveOf(i)]].rack.y

\* C3 witness: two upserts of different codes were both confirmed and the
\* persisted dataset holds both racks.
C3_Witness ==
  /\ Len(saved) = 2
  /\ resp[saved[1]].code # resp[saved[2]].code
  /\ \A i \in 1..2 : \E k \in DOMAIN FileRacks :
        /\ FileRacks[k].code = resp[saved[i]].code
        /\ FileRacks[k].x = resp[saved[i]].rack.x
        /\ FileRacks[k].y = resp[saved[i]].rack.y


\* two characters are the same letter, ignoring case
SameLetter(c, d) ==
  \/ c = d
  \/ c \in HasUpper /\ UpperTo[IndexOf(c, UpperFrom)] = d
  \/ d \in HasUpper /\ UpperTo[IndexOf(d, UpperFrom)] = c

EqIgnoreCase(a, b) ==
  Len(a) = Len(b) /\ \A i \in DOMAIN a : SameLetter(a[i], b[i])

\* m is raw without its leading and trailing white space
IsTrimOf(m, raw) ==
  \E a \in 0..Len(raw) : \E b \in a..Len(raw) :
    /\ m = SubSeq(raw, a + 1, b)
    /\ IsBlank(SubSeq(raw, 1, a)) /\ IsBlank(SubSeq(raw, b + 1, Len(raw)))
    /\ m # <<>> => (m[1] \notin WhiteSpace /\ m[Len(m)] \notin WhiteSpace)

Trimmed(raw) ==
  CHOOSE m \in {SubSeq(raw, a + 1, b) : a \in 0..Len(raw), b \in 0..Len(raw)} :
    IsTrimOf(m, raw)

\* c is raw trimmed and upper-cased
IsNormalizedOf(c, raw) ==
  /\ EqIgnoreCase(c, Trimmed(raw))
  /\ \A i \in DOMAIN c : c[i] \notin HasUpper

\* the body passes the validation the specification states
ValidBody(body) ==
  /\ body.code.t = "str" /\ ~IsBlank(body.code.s)
  /\ ~NotFinite(body.x) /\ ~NotFinite(body.y)

\* the step in which request r's saveDB returns true
SavesOk(r) == Saves(r) /\ saved' = Append(saved, r)

\* C4 as stated: when the dataset holds a rack whose code equals the
\* request's code ignoring letter case, a valid upsert sets that rack's x and
\* y to the requested values and the number of racks stays the same.
C4_CaseInsensitiveUpdate ==
  [][\A r \in Slots :
       (/\ SavesOk(r) /\ file.kind = "obj" /\ ValidBody(req[r])
        /\ \E i \in DOMAIN FileRacks :
              EqIgnoreCase(FileRacks[i].code, Trimmed(req[r].code.s)))
       => /\ Len(FileRacks') = Len(FileRacks)
          /\ \E i \in DOMAIN FileRacks :
               /\ EqIgnoreCase(FileRacks[i].code, Trimmed(req[r].code.s))
               /\ FileRacks'[i].x = Number(req[r].x)
               /\ FileRacks'[i].y = Number(req[r].y)]_vars

\* C4 witness: the dataset of the example, which holds the rack "A1" at
\* (10, 20), after its one save, made by a request whose code "a1" differs
\* from the rack's in letter case only: that rack holds the requested
\* coordinates and no rack was added.
C4_Witness ==
  /\ Len(saved) = 1 /\ resp[saved[1]].kind = "ok"
  /\ req[saved[1]].code = Str(<<"a","1">>)
  /\ file.kind = "obj" /\ file.hasItems /\ Len(file.items) = 3
  /\ Len(FileRacks) = 1
  /\ FileRacks[1].code = A1 /\ FileRacks[1].code # req[saved[1]].code.s
  /\ FileRacks[1].x = Number(req[saved[1]].x) /\ FileRacks[1].x # Fin(10)
  /\ FileRacks[1].y = Number(req[saved[1]].y)

\* C5 as stated: the confirmation is given only when the save succeeded, and
\* then the persisted dataset holds the returned rack with the requested
\* coordinates; when the save fails the response is StorageWriteFailed and
\* the mutation is not persisted: the document on disk is the one before the
\* request, or no readable dataset at all.
C5_ConfirmOnlyWhenPersisted ==
  [][\A r \in Slots :
       /\ Begins(r) => resp'[r].kind # "ok"
       /\ Saves(r) =>
            IF resp'[r].kind = "ok"
            THEN /\ saved' = Append(saved, r)
                 /\ \E k \in DOMAIN FileRacks' :
                      /\ FileRacks'[k].id = resp'[r].rack.id
                      /\ FileRacks'[k].code = resp'[r].rack.code
                      /\ FileRacks'[k].x = Number(req[r].x)
                      /\ FileRacks'[k].y = Number(req[r].y)
            ELSE /\ resp'[r] = WriteFailed /\ saved' = saved
                 /\ file' = file \/ file'.kind = "unreadable"]_vars

\* C6 as stated: a rack of the persisted dataset stays in it, at its place,
\* with its id and code, across every step; so the number of racks never
\* decreases.
C6_NoDelete ==
  [][/\ Len(FileRacks') >= Len(FileRacks)
     /\ \A i \in DOMAIN FileRacks :
          /\ FileRacks'[i].id = FileRacks[i].id
          /\ FileRacks'[i].code = FileRacks[i].code]_vars

\* C7: when no rack has the request's normalized code, a valid upsert that is
\* saved appends exactly one rack with id "R-" + code, the normalized code
\* and the given x and y; the racks already present, items, company and
\* warehouse are unchanged.
C7_CreateAppends ==
  [][\A r \in Slots :
       (/\ SavesOk(r) /\ file.kind = "obj" /\ ValidBody(req[r])
        /\ \A i \in DOMAIN FileRacks : ~IsNormalizedOf(FileRacks[i].code, req[r].code.s))
       => /\ Len(FileRacks') = Len(FileRacks) + 1
          /\ \A i \in DOMAIN FileRacks : FileRacks'[i] = FileRacks[i]
          /\ LET new == FileRacks'[Len(FileRacks')]
             IN  /\ IsNormalizedOf(new.code, req[r].code.s)
                 /\ new.id = <<"R", "-">> \o new.code
                 /\ new.x = Number(req[r].x) /\ new.y = Number(req[r].y)
          /\ file'.kind = "obj"
          /\ file'.hasItems = file.hasItems /\ file'.items = file.items
          /\ file'.company = file.company /\ file'.warehouse = file.warehouse]_vars

\* C7 witness: the dataset with three items and the rack A1 got a second
\* rack B2 with id R-B2, appended by a confirmed upsert.
C7_Witness ==
  /\ Len(saved) >= 1
  /\ file.hasItems /\ Len(file.items) = 3
  /\ Len(FileRacks) = 2 /\ FileRacks[1].code = A1
  /\ FileRacks[2].code = B2 /\ FileRacks[2].id = <<"R", "-", "B", "2">>
  /\ FileRacks[2].x = Fin(5)


\* the step that answers a search with a result list
SearchAnswered == out' # out /\ out'.op = "search" /\ out'.kind = "ok"

\* the items and racks of the document, as a search reads them
DataItems == IF file.kind = "obj" /\ file.hasItems THEN file.items ELSE <<>>

\* q stands in low from the position off + 1 on
OccursAt(low, q, off) ==
  /\ off + Len(q) <= Len(low)
  /\ \A p \in 1..Len(q) : low[off + p] = q[p]

\* q stands somewhere in low
OccursIn(low, q) == \E off \in 0..Len(low) : OccursAt(low, q, off)

\* s in lower case contains the normalized query q
ContainsIgnoreCase(s, q) == OccursIn(toLowerCase(s), q)

\* the positions of the items whose name or code contains q
MatchingAt(q) ==
  {i \in DOMAIN DataItems : \/ ContainsIgnoreCase(DataItems[i].name, q)
                            \/ ContainsIgnoreCase(DataItems[i].code, q)}

\* the k-th smallest element of a set of positions
Kth(S, k) == CHOOSE i \in S : Cardinality({j \in S : j <= i}) = k

\* C8: for a non-empty normalized query the search result is exactly the
\* items whose name or code contains the query ignoring case, in dataset
\* order, and total is the number of results.
C8_SearchExact ==
  [][SearchAnswered =>
       LET q == out'.query
           M == MatchingAt(q)
       IN  /\ q # <<>>
           /\ out'.total = Len(out'.results)
           /\ Len(out'.results) = Cardinality(M)
           /\ \A k \in DOMAIN out'.results :
                /\ out'.results[k].id = DataItems[Kth(M, k)].id
                /\ out'.results[k].name = DataItems[Kth(M, k)].name
                /\ out'.results[k].code = DataItems[Kth(M, k)].code
                /\ out'.results[k].rackId = DataItems[Kth(M, k)].rackId]_vars

\* C8 witness: a search of the three-item dataset returned two items, the
\* first matched by its name and the second by its code, leaving one out.
C8_Witness ==
  /\ out.op = "search" /\ out.kind = "ok" /\ out.total = 2
  /\ Len(DataItems) = 3
  /\ out.results[1].id = "I1" /\ out.results[2].id = "I2"
  /\ out.query = <<"m", "6">>

\* the racks whose id is the rack reference of a result
RacksOf(res) ==
  {i \in DOMAIN FileRacks : res.rackId.t = "str" /\ FileRacks[i].id = res.rackId.s}

\* C9: a matching item whose rackId is no rack's id is still in the results,
\* with rackCode "-" and null coordinates; a matching item whose rackId is a
\* rack's id carries that rack's code, x and y.
C9_DanglingJoin ==
  [][SearchAnswered =>
       /\ \A i \in MatchingAt(out'.query) :
            \E k \in DOMAIN out'.results : out'.results[k].id = DataItems[i].id
       /\ \A k \in DOMAIN out'.results :
            LET res == out'.results[k]
            IN  IF RacksOf(res) = {}
                THEN res.rackCode = <<"-">> /\ res.rackX = Null /\ res.rackY = Null
                ELSE \E i \in RacksOf(res) :
                       /\ res.rackCode = FileRacks[i].code
                       /\ res.rackX = FileRacks[i].x
                       /\ res.rackY = FileRacks[i].y]_vars

\* C9 witness: one search answer holds an item joined to its rack and an
\* item with a dangling reference shown as "-".
C9_Witness ==
  /\ out.op = "search" /\ out.kind = "ok" /\ Len(out.results) = 2
  /\ out.results[1].rackCode = A1 /\ out.results[1].rackX # Null
  /\ out.results[2].rackId.t = "str" /\ out.results[2].rackCode = <<"-">>
  /\ out.results[2].rackX = Null /\ out.results[2].rackY = Null
  /\ FileRacks # <<>>

\* C10 as stated: no request ends in an uncaught fault: every request that
\* has ended got a structured response, for any input and any document; an
\* upsert with a missing, blank or non-string code gets the client-error
\* response, and a failed load gets ServiceUnavailable without a save.
C10_NoUncaughtFault ==
  /\ out.kind # "fault"
  /\ out.op # "none" => out.structured
  /\ \A r \in Slots :
       pc[r] = "done" =>
         /\ resp[r].kind # "fault" /\ resp[r].structured
         /\ (CodeBlank(req[r].code) \/ req[r].code.t # "str") => resp[r] = InvalidInput
         /\ resp[r].kind = "unavailable" => saves[r] = 0

====
